---- MODULE Spec2Model ----
(***************************************************************************)
(* State-machine model of the recording API with MinIO upload              *)
(* (slides-recording-api-minio.js): the POST /record handler, the          *)
(* background job it starts, startXvfb / stopXvfb, recordSlideshow, the    *)
(* encoder callbacks, the eviction timer and the shutdown handler.         *)
(*                                                                         *)
(* Node runs one callback at a time, so every action below is one          *)
(* synchronous run of the code: from an event (request, timer, promise     *)
(* settlement, child-process event) to the next await.                     *)
(***************************************************************************)
EXTENDS Integers, Sequences, FiniteSets, TLC

\* ---- bounds ----
MaxJobs == 2      \* recordings admitted in one run of the server
MaxT == 1         \* largest timing value drawn for a request
MaxLen == 2       \* longest timings list drawn for a request
SchedMaxT == 3    \* largest timing value given to the slide loop alone
SchedMaxLen == 3  \* longest timings list given to the slide loop alone
UrlMaxLen == 3    \* longest URL, in pieces, given to convertToPresentUrl
MaxSize == 2      \* largest size (in blocks) the encoder writes to the output file

JobIds == 1..MaxJobs
Null == 0         \* a null process handle (job ids start at 1)
Absent == -1      \* the size of a file that does not exist
Kinds == {"xvfb", "wm", "chrome", "ffmpeg"}
Commands == {"xvfb-run", "google-chrome", "chromium-browser", "ffmpeg", "node",
             "fluxbox", "openbox"}

\* request bodies: timings lists (the documented example included) and URL shapes
RECURSIVE SeqsUpTo(_, _)
SeqsUpTo(S, n) ==
    IF n = 0 THEN {<<>>}
    ELSE LET shorter == SeqsUpTo(S, n - 1)
         IN  shorter \cup {Append(s, x) : s \in {q \in shorter : Len(q) = n - 1}, x \in S}

TimingInputs == SeqsUpTo(0..MaxT, MaxLen) \cup {<<3, 6, 9>>}
UrlInputs == {"", "other", "slides"}

\* what `which` resolves at the time of a call: everything, all but one command,
\* neither browser name, neither window manager
PathInputs ==
    {Commands} \cup {Commands \ {c} : c \in Commands}
      \cup {Commands \ {"google-chrome", "chromium-browser"}, Commands \ {"fluxbox", "openbox"}}

VARIABLES
    activeRecordings,  \* Map recordingId -> status record
    nextId,            \* the next fresh recordingId (uuidv4 never repeats)
    xvfbProcess,       \* global handle: Null or the job whose Xvfb it refers to
    wmProcess,         \* global handle: Null or the job whose window manager it refers to
    task,              \* per job: position and locals of the background task
    proc,              \* per job and kind: the operating-system process
    tempFile,          \* per job: Absent or the size of temp-recordings/slideshow_<id>.mp4
    unlinkFailed,      \* jobs whose fs.unlinkSync(tempOutputPath) threw
    timers,            \* pending timers: eviction, Xvfb settle (3000), Xvfb resolve (2000)
    response,          \* the last HTTP response of POST /record
    server,            \* "up", "crashed" (uncaught exception) or "exited" (shutdown)
    seen,              \* per job: the statuses written to its entry, in order
    events,            \* per job: waits, key presses and trailing hold of the slide loop
    heldAtTerminal,    \* per job: resources not yet torn down when the terminal status was written
    spawned,           \* per job: kinds of process ever started for it
    bucket             \* the MinIO bucket: object of job id -> stored size

vars == <<activeRecordings, nextId, xvfbProcess, wmProcess, task, proc, tempFile, unlinkFailed,
          timers, response, server, seen, events, heldAtTerminal, spawned, bucket>>

NoTask == [pc |-> "idle", browser |-> "undefined", ffmpegProcess |-> "undefined",
           pendingError |-> "none", i |-> 0, currentTime |-> 0, navAttempt |-> 0,
           errEvent |-> {}, timings |-> <<>>, size |-> 0, navTried |-> <<>>,
           navFailed |-> <<>>, wmName |-> "none", wmWhich |-> {}]
NoProc == [k \in Kinds |-> "none"]

Terminal == {"completed", "failed"}
Known == DOMAIN activeRecordings
NonTerminalJobs == {id \in Known : activeRecordings[id].status \notin Terminal}

Init ==
    /\ activeRecordings = <<>>
    /\ nextId = 1
    /\ xvfbProcess = Null
    /\ wmProcess = Null
    /\ task = [id \in JobIds |-> NoTask]
    /\ proc = [id \in JobIds |-> NoProc]
    /\ tempFile = [id \in JobIds |-> Absent]
    /\ unlinkFailed = {}
    /\ timers = [evict |-> {}, settle |-> {}, resolve |-> {}]
    /\ response = [code |-> 0, id |-> 0]
    /\ server = "up"
    /\ seen = [id \in JobIds |-> <<>>]
    /\ events = [id \in JobIds |-> <<>>]
    /\ heldAtTerminal = [id \in JobIds |-> {}]
    /\ spawned = [id \in JobIds |-> {}]
    /\ bucket = <<>>

\* ---- pure helpers ----

\* a dependency check that does not look for ffmpeg
checkDependencies_NoFfmpeg(path) ==
    {d \in {"xvfb", "google-chrome", "nodejs"} :
        \/ d = "xvfb" /\ "xvfb-run" \notin path
        \/ d = "google-chrome" /\ "google-chrome" \notin path /\ "chromium-browser" \notin path
        \/ d = "nodejs" /\ "node" \notin path}

\* a dependency check without the alternative browser name
checkDependencies_NoFallback(path) ==
    {d \in {"xvfb", "google-chrome", "ffmpeg", "nodejs"} :
        \/ d = "xvfb" /\ "xvfb-run" \notin path
        \/ d = "google-chrome" /\ "google-chrome" \notin path
        \/ d = "ffmpeg" /\ "ffmpeg" \notin path
        \/ d = "nodejs" /\ "node" \notin path}

\* checkDependencies: the names of the required tools that `which` does not resolve
checkDependencies(path) ==
    {d \in {"xvfb", "google-chrome", "ffmpeg", "nodejs"} :
        \/ d = "xvfb" /\ "xvfb-run" \notin path
        \/ d = "google-chrome" /\ "google-chrome" \notin path /\ "chromium-browser" \notin path
        \/ d = "ffmpeg" /\ "ffmpeg" \notin path
        \/ d = "nodejs" /\ "node" \notin path}

\* getChromeExecutable: "throws" when neither browser name resolves
getChromeExecutable(path) ==
    IF "google-chrome" \in path THEN "google-chrome"
    ELSE IF "chromium-browser" \in path THEN "chromium-browser"
    ELSE "throws"

\* ChildProcess.kill('SIGTERM'): signals the process if it is still running
Kill(p, id, kind) ==
    IF id \in JobIds /\ p[id][kind] = "running"
    THEN [p EXCEPT ![id][kind] = "terminating"]
    ELSE p

\* stopXvfb that forgets the window manager
stopXvfb_DisplayOnly(x, w, p) ==
    [xvfbProcess |-> Null, wmProcess |-> w,
     proc |-> IF x # Null THEN Kill(p, x, "xvfb") ELSE p, raised |-> FALSE]

\* stopXvfb that calls kill without testing the handles for null
stopXvfb_NoNullCheck(x, w, p) ==
    [xvfbProcess |-> Null, wmProcess |-> Null,
     proc |-> Kill(Kill(p, w, "wm"), x, "xvfb"), raised |-> (x = Null \/ w = Null)]

\* stopXvfb on handles x (xvfbProcess), w (wmProcess) and processes p
stopXvfb(x, w, p) ==
    LET p1 == IF w # Null THEN Kill(p, w, "wm") ELSE p
        p2 == IF x # Null THEN Kill(p1, x, "xvfb") ELSE p1
    IN  [xvfbProcess |-> Null, wmProcess |-> Null, proc |-> p2, raised |-> FALSE]

\* POST /record validation of the request body (lines 572-595):
\* 0 when the body passes, else the HTTP code of the rejection
ValidTimings(timings) ==
    /\ Len(timings) # 0
    /\ ~ \E k \in 1..Len(timings) : timings[k] <= 0
Validate(url, timings) ==
    IF url = "" THEN 400
    ELSE IF ~ValidTimings(timings) THEN 400
    ELSE IF url # "slides" THEN 400
    ELSE 0

\* a busy check that never refuses
Busy_Never == FALSE

\* a busy check that looks for a job in status 'recording' only
Busy_OnlyRecording == \E id \in Known : activeRecordings[id].status = "recording"

\* a busy check that refuses only while a job is not yet completed or failed
Busy_NonTerminalOnly == NonTerminalJobs # {}

\* the busy check (line 598)
Busy == Cardinality(Known) > 0

\* resources of job id whose teardown has not run, given handles x, w and locals t
Held(id, x, w, t) ==
    {k \in Kinds :
        \/ k = "xvfb" /\ x = id
        \/ k = "wm" /\ w = id
        \/ k = "chrome" /\ t[id].browser = "open"
        \/ k = "ffmpeg" /\ t[id].ffmpegProcess = "live"}


\* `pkill -f "Xvfb :99"` at the start of startXvfb signals every Xvfb on the display
Pkill(p) ==
    [j \in JobIds |-> [p[j] EXCEPT !.xvfb = IF @ = "running" THEN "terminating" ELSE @]]

\* an entry created with an error field already set
NewEntry_WithError(timings) ==
    [status |-> "starting", timings |-> timings, error |-> "pending", fileSize |-> 0,
     downloadUrl |-> "none", ffmpegOutput |-> "none"]

\* the entry stored at admission (lines 611-617)
NewEntry(timings) ==
    [status |-> "starting", timings |-> timings, error |-> "none", fileSize |-> 0,
     downloadUrl |-> "none", ffmpegOutput |-> "none"]

\* ---- the tail of the background job: catch block, then finally block ----
\* (lines 694-721) entered with error msg; ar, sn, t, p, tm are the job table,
\* status history, task locals, processes and timers at the throw
JobFails(id, msg, ar, sn, t, p, tm) ==
    LET s == stopXvfb(xvfbProcess, wmProcess, p)
    IN  /\ activeRecordings' =
              IF id \in DOMAIN ar
              THEN [ar EXCEPT ![id].status = "failed", ![id].error = msg]
              ELSE ar
        /\ seen' = IF id \in DOMAIN ar THEN [sn EXCEPT ![id] = Append(@, "failed")] ELSE sn
        /\ heldAtTerminal' =
              [heldAtTerminal EXCEPT ![id] = Held(id, xvfbProcess, wmProcess, t)]
        /\ \E unlinkOk \in BOOLEAN :
              /\ tempFile' = IF unlinkOk THEN [tempFile EXCEPT ![id] = Absent] ELSE tempFile
              /\ unlinkFailed' = IF tempFile[id] # Absent /\ ~unlinkOk
                                 THEN unlinkFailed \cup {id} ELSE unlinkFailed
        /\ xvfbProcess' = s.xvfbProcess
        /\ wmProcess' = s.wmProcess
        /\ proc' = s.proc
        /\ timers' = [tm EXCEPT !.evict = @ \cup {id}]
        /\ task' = [t EXCEPT ![id].pc = "done", ![id].pendingError = "none"]

\* a finally block that closes the browser before it stops the encoder
RecFinally_BrowserFirst(id, err, ar, sn, t, p, tm) ==
    IF t[id].browser = "open"
    THEN /\ task' = [t EXCEPT ![id].pc = "browser_close", ![id].pendingError = err]
         /\ proc' = p
         /\ activeRecordings' = ar
         /\ seen' = sn
         /\ timers' = tm
         /\ UNCHANGED <<heldAtTerminal, tempFile, unlinkFailed, xvfbProcess, wmProcess>>
    ELSE IF t[id].ffmpegProcess = "live"
    THEN /\ task' = [t EXCEPT ![id].pc = "stop_wait", ![id].pendingError = err,
                              ![id].ffmpegProcess = "killed"]
         /\ proc' = Kill(p, id, "ffmpeg")
         /\ activeRecordings' = ar
         /\ seen' = sn
         /\ timers' = tm
         /\ UNCHANGED <<heldAtTerminal, tempFile, unlinkFailed, xvfbProcess, wmProcess>>
    ELSE JobFails(id, err, ar, sn, t, p, tm)

\* ---- the finally block of recordSlideshow (lines 498-516) ----
\* entered with err ("none" on the normal path)
RecFinally(id, err, ar, sn, t, p, tm) ==
    IF t[id].ffmpegProcess = "live"
    THEN /\ task' = [t EXCEPT ![id].pc = "stop_wait", ![id].pendingError = err,
                              ![id].ffmpegProcess = "killed"]
         /\ proc' = Kill(p, id, "ffmpeg")
         /\ activeRecordings' = ar
         /\ seen' = sn
         /\ timers' = tm
         /\ UNCHANGED <<heldAtTerminal, tempFile, unlinkFailed, xvfbProcess, wmProcess>>
    ELSE IF t[id].browser = "open"
    THEN /\ task' = [t EXCEPT ![id].pc = "browser_close", ![id].pendingError = err]
         /\ proc' = p
         /\ activeRecordings' = ar
         /\ seen' = sn
         /\ timers' = tm
         /\ UNCHANGED <<heldAtTerminal, tempFile, unlinkFailed, xvfbProcess, wmProcess>>
    ELSE JobFails(id, err, ar, sn, t, p, tm)

\* the Node process ends (uncaught exception or process.exit): its memory, the
\* job table, handles, timers and pending callbacks, is gone; child processes,
\* files and bucket objects stay
Halt(how) ==
    /\ server' = how
    /\ activeRecordings' = <<>>
    /\ xvfbProcess' = Null
    /\ wmProcess' = Null
    /\ task' = [id \in JobIds |-> NoTask]
    /\ timers' = [evict |-> {}, settle |-> {}, resolve |-> {}]
    /\ response' = [code |-> 0, id |-> 0]
    /\ seen' = [id \in JobIds |-> <<>>]
    /\ events' = [id \in JobIds |-> <<>>]
    /\ heldAtTerminal' = [id \in JobIds |-> {}]

\* ---- POST /record ----
\* a body that fails validation: 400, nothing else happens
RejectInvalid(url, timings) ==
    /\ server = "up"
    /\ Validate(url, timings) # 0
    /\ response' = [code |-> Validate(url, timings), id |-> 0]
    /\ UNCHANGED <<activeRecordings, nextId, xvfbProcess, wmProcess, task, proc, tempFile, unlinkFailed,
                   timers, server, seen, events, heldAtTerminal, spawned, bucket>>

\* a valid body while the job table is not empty: 429
RejectBusy(url, timings) ==
    /\ server = "up"
    /\ Validate(url, timings) = 0
    /\ Busy
    /\ response' = [code |-> 429, id |-> 0]
    /\ UNCHANGED <<activeRecordings, nextId, xvfbProcess, wmProcess, task, proc, tempFile, unlinkFailed,
                   timers, server, seen, events, heldAtTerminal, spawned, bucket>>

\* an admission that answers after the dependency check, with its outcome
Admit_AnswersAfterCheck(url, timings, path) ==
    /\ server = "up"
    /\ Validate(url, timings) = 0
    /\ ~Busy
    /\ nextId <= MaxJobs
    /\ LET id == nextId
           ar1 == (id :> NewEntry(timings)) @@ activeRecordings
           ar2 == [ar1 EXCEPT ![id].status = "checking_dependencies"]
           sn2 == [seen EXCEPT ![id] = <<"starting", "checking_dependencies">>]
       IN  /\ response' = IF checkDependencies(path) # {}
                          THEN [code |-> 500, id |-> id, status |-> "failed",
                                at |-> ar2[id].status]
                          ELSE [code |-> 200, id |-> id, status |-> "started",
                                at |-> ar2[id].status]
           /\ nextId' = id + 1
           /\ IF checkDependencies(path) # {}
              THEN JobFails(id, "Missing dependencies", ar2, sn2,
                            [task EXCEPT ![id].timings = timings], proc, timers)
              ELSE /\ activeRecordings' = [ar2 EXCEPT ![id].status = "starting_virtual_display"]
                   /\ seen' = [sn2 EXCEPT ![id] = Append(@, "starting_virtual_display")]
                   /\ proc' = Pkill(proc)
                   /\ task' = [task EXCEPT ![id].pc = "xvfb_spawn", ![id].timings = timings]
                   /\ UNCHANGED <<xvfbProcess, wmProcess, tempFile, unlinkFailed, timers, heldAtTerminal>>
    /\ UNCHANGED <<server, events, spawned, bucket>>

\* admission: entry created, response sent (`at` keeps the status the entry has
\* when res.json is called), and the background job runs up to
\* its first await (dependency check, then the synchronous part of startXvfb)
Admit(url, timings, path) ==
    /\ server = "up"
    /\ Validate(url, timings) = 0
    /\ ~Busy
    /\ nextId <= MaxJobs
    /\ LET id == nextId
           ar1 == (id :> NewEntry(timings)) @@ activeRecordings
           ar2 == [ar1 EXCEPT ![id].status = "checking_dependencies"]
           sn2 == [seen EXCEPT ![id] = <<"starting", "checking_dependencies">>]
       IN  /\ response' = [code |-> 200, id |-> id, status |-> "started",
                            at |-> ar1[id].status]
           /\ nextId' = id + 1
           /\ IF checkDependencies(path) # {}
              THEN JobFails(id, "Missing dependencies", ar2, sn2,
                            [task EXCEPT ![id].timings = timings], proc, timers)
              ELSE /\ activeRecordings' = [ar2 EXCEPT ![id].status = "starting_virtual_display"]
                   /\ seen' = [sn2 EXCEPT ![id] = Append(@, "starting_virtual_display")]
                   /\ proc' = Pkill(proc)
                   /\ task' = [task EXCEPT ![id].pc = "xvfb_spawn", ![id].timings = timings]
                   /\ UNCHANGED <<xvfbProcess, wmProcess, tempFile, unlinkFailed, timers, heldAtTerminal>>
    /\ UNCHANGED <<server, events, spawned, bucket>>

\* ---- startXvfb (lines 232-306) ----
\* the 1000 ms timer: spawn Xvfb, register the error handler, arm the settle timer
XvfbSpawn(id, ok) ==
    /\ server = "up"
    /\ task[id].pc = "xvfb_spawn"
    /\ xvfbProcess' = id
    /\ IF ok
       THEN /\ proc' = [proc EXCEPT ![id].xvfb = "running"]
            /\ spawned' = [spawned EXCEPT ![id] = @ \cup {"xvfb"}]
            /\ task' = [task EXCEPT ![id].pc = "xvfb_pending"]
       ELSE /\ task' = [task EXCEPT ![id].pc = "xvfb_pending", ![id].errEvent = @ \cup {"xvfb"}]
            /\ UNCHANGED <<proc, spawned>>
    /\ timers' = [timers EXCEPT !.settle = @ \cup {id}]
    /\ UNCHANGED <<activeRecordings, nextId, wmProcess, tempFile, unlinkFailed, response, server, seen,
                   events, heldAtTerminal, bucket>>

\* the 'error' event of the Xvfb child: reject(err)
XvfbError(id) ==
    /\ server = "up"
    /\ "xvfb" \in task[id].errEvent
    /\ LET t == [task EXCEPT ![id].errEvent = @ \ {"xvfb"}]
       IN  IF task[id].pc = "xvfb_pending"
           THEN JobFails(id, "Xvfb error", activeRecordings, seen, t, proc, timers)
           ELSE /\ task' = t
                /\ UNCHANGED <<activeRecordings, seen, heldAtTerminal, tempFile, unlinkFailed, xvfbProcess,
                               wmProcess, proc, timers>>
    /\ UNCHANGED <<nextId, response, server, events, spawned, bucket>>

\* a choice of window manager that prefers openbox
windowManager_OpenboxFirst(path) ==
    IF "openbox" \in path THEN "openbox"
    ELSE IF "fluxbox" \in path THEN "fluxbox" ELSE "none"

\* the window manager chosen by startXvfb (lines 268-296): fluxbox when `which`
\* resolves it, else openbox when `which` resolves it, else none
windowManager(path) ==
    IF "fluxbox" \in path THEN "fluxbox"
    ELSE IF "openbox" \in path THEN "openbox" ELSE "none"

\* the 3000 ms settle timer: liveness test on the handle, window manager, resolve timer;
\* wmName and wmWhich keep the window manager chosen and the candidates that `which`
\* resolved until the start resolves
XvfbSettle(id, path, wmOk) ==
    /\ server = "up"
    /\ id \in timers.settle
    /\ "xvfb" \notin task[id].errEvent
    /\ LET tm == [timers EXCEPT !.settle = @ \ {id}]
           wm == windowManager(path)
       IN  IF xvfbProcess # Null
           THEN /\ timers' = [tm EXCEPT !.resolve = @ \cup {id}]
                /\ IF wm = "none"
                   THEN UNCHANGED <<wmProcess, proc, spawned, task>>
                   ELSE /\ wmProcess' = id
                        /\ IF wmOk
                           THEN /\ proc' = [proc EXCEPT ![id].wm = "running"]
                                /\ spawned' = [spawned EXCEPT ![id] = @ \cup {"wm"}]
                                /\ task' = [task EXCEPT ![id].wmName = wm,
                                        ![id].wmWhich = path \cap {"fluxbox", "openbox"}]
                           ELSE /\ task' = [task EXCEPT ![id].errEvent = @ \cup {"wm"},
                                        ![id].wmName = wm,
                                        ![id].wmWhich = path \cap {"fluxbox", "openbox"}]
                                /\ UNCHANGED <<proc, spawned>>
                /\ UNCHANGED <<activeRecordings, seen, heldAtTerminal, tempFile, unlinkFailed, xvfbProcess>>
           ELSE /\ IF task[id].pc = "xvfb_pending"
                   THEN JobFails(id, "Failed to start virtual display", activeRecordings,
                                 seen, task, proc, tm)
                   ELSE /\ timers' = tm
                        /\ UNCHANGED <<activeRecordings, seen, heldAtTerminal, tempFile, unlinkFailed,
                                       xvfbProcess, wmProcess, proc, task>>
                /\ UNCHANGED spawned
    /\ UNCHANGED <<nextId, response, server, events, bucket>>

\* the 'error' event of the window manager child: wmProcess = null
WmError(id) ==
    /\ server = "up"
    /\ "wm" \in task[id].errEvent
    /\ wmProcess' = Null
    /\ task' = [task EXCEPT ![id].errEvent = @ \ {"wm"}]
    /\ UNCHANGED <<activeRecordings, nextId, xvfbProcess, proc, tempFile, unlinkFailed, timers, response,
                   server, seen, events, heldAtTerminal, spawned, bucket>>

\* the 2000 ms timer resolves startXvfb; the job sets 'recording' and runs
\* recordSlideshow up to puppeteer.launch
XvfbResolve(id, path) ==
    /\ server = "up"
    /\ id \in timers.resolve
    /\ "wm" \notin task[id].errEvent
    /\ LET tm == [timers EXCEPT !.resolve = @ \ {id}]
           ar == [activeRecordings EXCEPT ![id].status = "recording"]
           sn == [seen EXCEPT ![id] = Append(@, "recording")]
       IN  IF task[id].pc # "xvfb_pending"
           THEN /\ timers' = tm
                /\ UNCHANGED <<activeRecordings, seen, heldAtTerminal, tempFile, unlinkFailed, xvfbProcess,
                               wmProcess, proc, task>>
           ELSE IF getChromeExecutable(path) = "throws"
           THEN RecFinally(id, "No Chrome/Chromium executable found", ar, sn,
                           [task EXCEPT ![id].wmName = "none", ![id].wmWhich = {}], proc, tm)
           ELSE /\ activeRecordings' = ar
                /\ seen' = sn
                /\ timers' = tm
                /\ task' = [task EXCEPT ![id].pc = "launch", ![id].wmName = "none",
                                             ![id].wmWhich = {}]
                /\ UNCHANGED <<heldAtTerminal, tempFile, unlinkFailed, xvfbProcess, wmProcess, proc>>
    /\ UNCHANGED <<nextId, response, server, events, spawned, bucket>>


\* ---- recordSlideshow (lines 327-517) ----
\* puppeteer.launch settles
BrowserLaunch(id, ok) ==
    /\ server = "up"
    /\ task[id].pc = "launch"
    /\ IF ok
       THEN /\ task' = [task EXCEPT ![id].pc = "page_setup", ![id].browser = "open"]
            /\ proc' = [proc EXCEPT ![id].chrome = "running"]
            /\ spawned' = [spawned EXCEPT ![id] = @ \cup {"chrome"}]
            /\ UNCHANGED <<activeRecordings, seen, heldAtTerminal, tempFile, unlinkFailed, xvfbProcess,
                           wmProcess, timers>>
       ELSE /\ RecFinally(id, "browser launch failed", activeRecordings, seen, task, proc,
                          timers)
            /\ UNCHANGED spawned
    /\ UNCHANGED <<nextId, response, server, events, bucket>>

\* a set of load strategies in another order
Strategy_LoadFirst(n) ==
    IF n = 1 THEN "load" ELSE IF n = 2 THEN "networkidle2" ELSE "domcontentloaded"

\* the three load strategies, in order (lines 402-416)
Strategy(n) == IF n = 1 THEN "domcontentloaded" ELSE IF n = 2 THEN "networkidle2" ELSE "load"

\* the message of the error with which the goto of strategy n rejects
GotoError(n) ==
    IF n = 1 THEN "goto domcontentloaded failed"
    ELSE IF n = 2 THEN "goto networkidle2 failed"
    ELSE "goto load failed"

\* newPage, setViewport, evaluateOnNewDocument settle; the first goto is issued
PageSetup(id, ok) ==
    /\ server = "up"
    /\ task[id].pc = "page_setup"
    /\ IF ok
       THEN /\ task' = [task EXCEPT ![id].pc = "goto", ![id].navAttempt = 1,
                                    ![id].navTried = <<Strategy(1)>>]
            /\ UNCHANGED <<activeRecordings, seen, heldAtTerminal, tempFile, unlinkFailed, xvfbProcess,
                           wmProcess, proc, timers>>
       ELSE RecFinally(id, "page setup failed", activeRecordings, seen, task, proc, timers)
    /\ UNCHANGED <<nextId, response, server, events, spawned, bucket>>

\* a navigation whose last failure is swallowed like the first two
Goto_IgnoresLastFailure(id, ok) ==
    /\ server = "up"
    /\ task[id].pc = "goto"
    /\ IF ok
       THEN task' = [task EXCEPT ![id].pc = "page_settle"]
       ELSE IF task[id].navAttempt >= 3
       THEN task' = [task EXCEPT ![id].pc = "page_settle",
                                 ![id].navFailed = Append(@, Strategy(3))]
       ELSE task' = [task EXCEPT ![id].navAttempt = @ + 1,
                                 ![id].navFailed = Append(@, Strategy(task[id].navAttempt)),
                                 ![id].navTried = Append(@, Strategy(task[id].navAttempt + 1))]
    /\ UNCHANGED <<activeRecordings, seen, heldAtTerminal, tempFile, unlinkFailed, xvfbProcess,
                   wmProcess, proc, timers>>
    /\ UNCHANGED <<nextId, response, server, events, spawned, bucket>>

\* page.goto settles: the errors of the first two strategies are caught and
\* dropped (firstError, secondError), the error of the third propagates
Goto(id, ok) ==
    /\ server = "up"
    /\ task[id].pc = "goto"
    /\ IF ok
       THEN /\ task' = [task EXCEPT ![id].pc = "page_settle"]
            /\ UNCHANGED <<activeRecordings, seen, heldAtTerminal, tempFile, unlinkFailed, xvfbProcess,
                           wmProcess, proc, timers>>
       ELSE IF task[id].navAttempt < 3
       THEN /\ task' = [task EXCEPT ![id].navAttempt = @ + 1,
                                    ![id].navFailed = Append(@, Strategy(task[id].navAttempt)),
                                    ![id].navTried = Append(@, Strategy(task[id].navAttempt + 1))]
            /\ UNCHANGED <<activeRecordings, seen, heldAtTerminal, tempFile, unlinkFailed, xvfbProcess,
                           wmProcess, proc, timers>>
       ELSE RecFinally(id, GotoError(3), activeRecordings, seen,
                       [task EXCEPT ![id].navFailed = Append(@, Strategy(3))], proc, timers)
    /\ UNCHANGED <<nextId, response, server, events, spawned, bucket>>

\* the 8000 ms settle delay ends; the sign-in test on page.url()
PageSettle(id, signin) ==
    /\ server = "up"
    /\ task[id].pc = "page_settle"
    /\ IF signin
       THEN RecFinally(id, "Authentication required", activeRecordings, seen, task, proc,
                       timers)
       ELSE /\ task' = [task EXCEPT ![id].pc = "prime"]
            /\ UNCHANGED <<activeRecordings, seen, heldAtTerminal, tempFile, unlinkFailed, xvfbProcess,
                           wmProcess, proc, timers>>
    /\ UNCHANGED <<nextId, response, server, events, spawned, bucket>>

\* a recording that goes on to the slide loop without starting the encoder
Prime_NoSpawn(id, spawnOk) ==
    /\ server = "up"
    /\ task[id].pc = "prime"
    /\ task' = [task EXCEPT ![id].pc = "ffmpeg_warmup"]
    /\ UNCHANGED <<activeRecordings, nextId, xvfbProcess, wmProcess, proc, tempFile, unlinkFailed,
                   timers, response, server, seen, events, heldAtTerminal, spawned, bucket>>

\* Escape and F5 (errors swallowed), then ffmpeg is spawned with no 'error' listener
Prime(id, spawnOk) ==
    /\ server = "up"
    /\ task[id].pc = "prime"
    /\ IF spawnOk
       THEN /\ task' = [task EXCEPT ![id].pc = "ffmpeg_warmup", ![id].ffmpegProcess = "live"]
            /\ proc' = [proc EXCEPT ![id].ffmpeg = "running"]
            /\ spawned' = [spawned EXCEPT ![id] = @ \cup {"ffmpeg"}]
       ELSE /\ task' = [task EXCEPT ![id].pc = "ffmpeg_warmup", ![id].ffmpegProcess = "live",
                                    ![id].errEvent = @ \cup {"ffmpeg"}]
            /\ UNCHANGED <<proc, spawned>>
    /\ UNCHANGED <<activeRecordings, nextId, xvfbProcess, wmProcess, tempFile, unlinkFailed, timers,
                   response, server, seen, events, heldAtTerminal, bucket>>

\* the 'error' event of the ffmpeg child has no listener: uncaught exception
FfmpegSpawnError(id) ==
    /\ server = "up"
    /\ "ffmpeg" \in task[id].errEvent
    /\ Halt("crashed")
    /\ UNCHANGED <<nextId, proc, tempFile, unlinkFailed, spawned, bucket>>

\* the 3000 ms delay after the spawn ends; the slide loop starts
FfmpegWarmup(id) ==
    /\ server = "up"
    /\ task[id].pc = "ffmpeg_warmup"
    /\ "ffmpeg" \notin task[id].errEvent
    /\ task' = [task EXCEPT ![id].pc = "transitions", ![id].i = 1, ![id].currentTime = 0]
    /\ UNCHANGED <<activeRecordings, nextId, xvfbProcess, wmProcess, proc, tempFile, unlinkFailed, timers,
                   response, server, seen, events, heldAtTerminal, spawned, bucket>>

\* a wait that is not taken relative to the previous timing
WaitTime_NoCursor(t, currentTime) == IF t > 0 THEN t ELSE 0

\* a wait that is taken as computed, negative or not
WaitTime_Unclamped(t, currentTime) == t - currentTime

\* the wait of one loop iteration (lines 481-485): 0 when no timer is set
WaitTime(t, currentTime) == IF t - currentTime > 0 THEN t - currentTime ELSE 0

\* one iteration of the slide loop (lines 480-493): wait, ArrowRight, 100 ms
SlideStep(id, keyOk) ==
    /\ server = "up"
    /\ task[id].pc = "transitions"
    /\ task[id].i <= Len(task[id].timings)
    /\ LET t == task[id].timings[task[id].i]
           waited == Append(events[id], <<"wait", WaitTime(t, task[id].currentTime)>>)
       IN  IF keyOk
           THEN /\ events' = [events EXCEPT ![id] = Append(waited, <<"advance", task[id].i>>)]
                /\ task' = [task EXCEPT ![id].i = @ + 1, ![id].currentTime = t]
                /\ UNCHANGED <<activeRecordings, seen, heldAtTerminal, tempFile, unlinkFailed, xvfbProcess,
                               wmProcess, proc, timers>>
           ELSE /\ events' = [events EXCEPT ![id] = waited]
                /\ RecFinally(id, "key press failed", activeRecordings, seen, task, proc,
                              timers)
    /\ UNCHANGED <<nextId, response, server, spawned, bucket>>

\* the loop has ended; the 5000 ms hold on the final slide, then the finally block
FinalHold(id) ==
    /\ server = "up"
    /\ task[id].pc = "transitions"
    /\ task[id].i > Len(task[id].timings)
    /\ events' = [events EXCEPT ![id] = Append(@, <<"hold", 5>>)]
    /\ RecFinally(id, "none", activeRecordings, seen, task, proc, timers)
    /\ UNCHANGED <<nextId, response, server, spawned, bucket>>


\* a job that goes to the upload without writing 'uploading_to_minio'
Return_NoUploadStatus(id, err, ar, sn, t, p, tm) ==
    IF err # "none"
    THEN JobFails(id, err, ar, sn, t, p, tm)
    ELSE IF tempFile[id] = Absent
    THEN JobFails(id, "Recording file was not created", ar, sn, t, p, tm)
    ELSE IF tempFile[id] = 0
    THEN JobFails(id, "Recording file is empty", ar, sn, t, p, tm)
    ELSE /\ activeRecordings' = ar
         /\ seen' = sn
         /\ task' = [t EXCEPT ![id].pc = "upload", ![id].size = tempFile[id],
                              ![id].pendingError = "none"]
         /\ proc' = p
         /\ timers' = tm
         /\ UNCHANGED <<heldAtTerminal, tempFile, unlinkFailed, xvfbProcess, wmProcess>>

\* a job that goes on to the file checks and the upload although recordSlideshow threw
Return_IgnoresError(id, err, ar, sn, t, p, tm) ==
    IF tempFile[id] = Absent
    THEN JobFails(id, "Recording file was not created", ar, sn, t, p, tm)
    ELSE IF tempFile[id] = 0
    THEN JobFails(id, "Recording file is empty", ar, sn, t, p, tm)
    ELSE /\ activeRecordings' = [ar EXCEPT ![id].status = "uploading_to_minio"]
         /\ seen' = [sn EXCEPT ![id] = Append(@, "uploading_to_minio")]
         /\ task' = [t EXCEPT ![id].pc = "upload", ![id].size = tempFile[id],
                              ![id].pendingError = "none"]
         /\ proc' = p
         /\ timers' = tm
         /\ UNCHANGED <<heldAtTerminal, tempFile, unlinkFailed, xvfbProcess, wmProcess>>

\* a job that does not test the size of the output file
Return_NoEmptyCheck(id, err, ar, sn, t, p, tm) ==
    IF err # "none"
    THEN JobFails(id, err, ar, sn, t, p, tm)
    ELSE IF tempFile[id] = Absent
    THEN JobFails(id, "Recording file was not created", ar, sn, t, p, tm)
    ELSE /\ activeRecordings' = [ar EXCEPT ![id].status = "uploading_to_minio"]
         /\ seen' = [sn EXCEPT ![id] = Append(@, "uploading_to_minio")]
         /\ task' = [t EXCEPT ![id].pc = "upload", ![id].size = tempFile[id],
                              ![id].pendingError = "none"]
         /\ proc' = p
         /\ timers' = tm
         /\ UNCHANGED <<heldAtTerminal, tempFile, unlinkFailed, xvfbProcess, wmProcess>>

\* ---- the background job after recordSlideshow settles (lines 654-721) ----
\* err is the error recordSlideshow rejected with, "none" when it returned
Return(id, err, ar, sn, t, p, tm) ==
    IF err # "none"
    THEN JobFails(id, err, ar, sn, t, p, tm)
    ELSE IF tempFile[id] = Absent
    THEN JobFails(id, "Recording file was not created", ar, sn, t, p, tm)
    ELSE IF tempFile[id] = 0
    THEN JobFails(id, "Recording file is empty", ar, sn, t, p, tm)
    ELSE /\ activeRecordings' = [ar EXCEPT ![id].status = "uploading_to_minio"]
         /\ seen' = [sn EXCEPT ![id] = Append(@, "uploading_to_minio")]
         /\ task' = [t EXCEPT ![id].pc = "upload", ![id].size = tempFile[id],
                              ![id].pendingError = "none"]
         /\ proc' = p
         /\ timers' = tm
         /\ UNCHANGED <<heldAtTerminal, tempFile, unlinkFailed, xvfbProcess, wmProcess>>

\* a finally block that returns after the wait for the encoder without closing the browser
AfterStop_SkipsClose(id, t, p) ==
    Return(id, t[id].pendingError, activeRecordings, seen, t, p, timers)

\* the finally block after the wait for the encoder: `if (browser) await browser.close()`
AfterStop(id, t, p) ==
    IF t[id].browser = "open"
    THEN /\ task' = [t EXCEPT ![id].pc = "browser_close"]
         /\ proc' = p
         /\ UNCHANGED <<activeRecordings, seen, heldAtTerminal, tempFile, unlinkFailed, xvfbProcess,
                        wmProcess, timers>>
    ELSE Return(id, t[id].pendingError, activeRecordings, seen, t, p, timers)

\* the encoder process exits; its 'close' event ends the wait of the finally block
FfmpegExit(id) ==
    /\ proc[id].ffmpeg \in {"running", "terminating"}
    /\ LET p == [proc EXCEPT ![id].ffmpeg = "none"]
       IN  IF server = "up" /\ task[id].pc = "stop_wait"
           THEN AfterStop(id, task, p)
           ELSE /\ proc' = p
                /\ UNCHANGED <<activeRecordings, seen, heldAtTerminal, tempFile, unlinkFailed, xvfbProcess,
                               wmProcess, timers, task>>
    /\ UNCHANGED <<nextId, response, server, events, spawned, bucket>>

\* a wait for the encoder with no timer: only the 'close' event ends it
StopTimeout_NoTimer(id) ==
    /\ server = "up"
    /\ task[id].pc = "stop_wait"
    /\ FALSE
    /\ UNCHANGED vars

\* the 10000 ms timer of the finally block ends the wait
StopTimeout(id) ==
    /\ server = "up"
    /\ task[id].pc = "stop_wait"
    /\ AfterStop(id, task, proc)
    /\ UNCHANGED <<nextId, response, server, events, spawned, bucket>>

\* browser.close settles; puppeteer kills the browser process when the graceful
\* close fails, so the process is gone either way
BrowserClose(id, ok) ==
    /\ server = "up"
    /\ task[id].pc = "browser_close"
    /\ LET t == [task EXCEPT ![id].browser = "closed"]
       IN  IF ok
           THEN Return(id, task[id].pendingError, activeRecordings, seen, t,
                       [proc EXCEPT ![id].chrome = "none"], timers)
           ELSE JobFails(id, "browser close failed", activeRecordings, seen, t,
                         [proc EXCEPT ![id].chrome = "none"], timers)
    /\ UNCHANGED <<nextId, response, server, events, spawned, bucket>>

\* an upload after which the local file is never unlinked on success
Upload_KeepsFile(id, ok, unlinkOk) ==
    /\ server = "up"
    /\ task[id].pc = "upload"
    /\ IF ok /\ tempFile[id] # Absent
       THEN LET s == stopXvfb(xvfbProcess, wmProcess, proc)
            IN  /\ bucket' = (id :> tempFile[id]) @@ bucket
                /\ activeRecordings' =
                      [activeRecordings EXCEPT ![id].status = "completed",
                                               ![id].fileSize = task[id].size,
                                               ![id].downloadUrl = "url"]
                /\ seen' = [seen EXCEPT ![id] = Append(@, "completed")]
                /\ heldAtTerminal' =
                      [heldAtTerminal EXCEPT ![id] = Held(id, xvfbProcess, wmProcess, task)]
                /\ UNCHANGED <<tempFile, unlinkFailed>>
                /\ xvfbProcess' = s.xvfbProcess
                /\ wmProcess' = s.wmProcess
                /\ proc' = s.proc
                /\ timers' = [timers EXCEPT !.evict = @ \cup {id}]
                /\ task' = [task EXCEPT ![id].pc = "done"]
       ELSE /\ JobFails(id, "upload failed", activeRecordings, seen, task, proc, timers)
            /\ UNCHANGED bucket
    /\ UNCHANGED <<nextId, response, server, events, spawned>>

\* fPutObject settles (uploadToMinIO, lines 116-141; then lines 673-721)
Upload(id, ok, unlinkOk) ==
    /\ server = "up"
    /\ task[id].pc = "upload"
    /\ IF ok /\ tempFile[id] # Absent
       THEN LET s == stopXvfb(xvfbProcess, wmProcess, proc)
            IN  /\ bucket' = (id :> tempFile[id]) @@ bucket
                /\ activeRecordings' =
                      [activeRecordings EXCEPT ![id].status = "completed",
                                               ![id].fileSize = task[id].size,
                                               ![id].downloadUrl = "url"]
                /\ seen' = [seen EXCEPT ![id] = Append(@, "completed")]
                /\ heldAtTerminal' =
                      [heldAtTerminal EXCEPT ![id] = Held(id, xvfbProcess, wmProcess, task)]
                /\ tempFile' = IF unlinkOk THEN [tempFile EXCEPT ![id] = Absent] ELSE tempFile
                /\ unlinkFailed' = IF unlinkOk THEN unlinkFailed ELSE unlinkFailed \cup {id}
                /\ xvfbProcess' = s.xvfbProcess
                /\ wmProcess' = s.wmProcess
                /\ proc' = s.proc
                /\ timers' = [timers EXCEPT !.evict = @ \cup {id}]
                /\ task' = [task EXCEPT ![id].pc = "done"]
       ELSE /\ JobFails(id, "upload failed", activeRecordings, seen, task, proc, timers)
            /\ UNCHANGED bucket
    /\ UNCHANGED <<nextId, response, server, events, spawned>>

\* ---- the encoder and the other child processes ----
\* ffmpeg creates the output file, then appends to it while it runs
FfmpegWrite(id) ==
    /\ \/ proc[id].ffmpeg = "running" /\ tempFile[id] = Absent
       \/ proc[id].ffmpeg \in {"running", "terminating"} /\ tempFile[id] # Absent
    /\ tempFile[id] # MaxSize
    /\ tempFile' = [tempFile EXCEPT ![id] = IF @ = Absent THEN 0 ELSE @ + 1]
    /\ UNCHANGED unlinkFailed
    /\ UNCHANGED <<activeRecordings, nextId, xvfbProcess, wmProcess, task, proc, timers,
                   response, server, seen, events, heldAtTerminal, spawned, bucket>>

\* a stderr handler that also puts the job back to 'recording'
FfmpegProgress_SetsStatus(id) ==
    /\ server = "up"
    /\ proc[id].ffmpeg \in {"running", "terminating"}
    /\ activeRecordings' =
          IF id \in Known
          THEN [activeRecordings EXCEPT ![id].ffmpegOutput = "marker",
                                        ![id].status = "recording"]
          ELSE activeRecordings
    /\ UNCHANGED <<nextId, xvfbProcess, wmProcess, task, proc, tempFile, unlinkFailed, timers,
                   response, server, seen, events, heldAtTerminal, spawned, bucket>>

\* a stderr handler without the has() test: it stores an entry when there is none
FfmpegProgress_NoHasCheck(id) ==
    /\ server = "up"
    /\ proc[id].ffmpeg \in {"running", "terminating"}
    /\ activeRecordings' =
          IF id \in Known
          THEN [activeRecordings EXCEPT ![id].ffmpegOutput = "marker"]
          ELSE (id :> [NewEntry(<<>>) EXCEPT !.ffmpegOutput = "marker"]) @@ activeRecordings
    /\ UNCHANGED <<nextId, xvfbProcess, wmProcess, task, proc, tempFile, unlinkFailed, timers,
                   response, server, seen, events, heldAtTerminal, spawned, bucket>>

\* the stderr 'data' handler (lines 458-472) on a frame=/time= line
FfmpegProgress(id) ==
    /\ server = "up"
    /\ proc[id].ffmpeg \in {"running", "terminating"}
    /\ activeRecordings' =
          IF id \in Known
          THEN [activeRecordings EXCEPT ![id].ffmpegOutput = "marker"]
          ELSE activeRecordings
    /\ UNCHANGED <<nextId, xvfbProcess, wmProcess, task, proc, tempFile, unlinkFailed, timers, response,
                   server, seen, events, heldAtTerminal, spawned, bucket>>

\* Xvfb or the window manager exits after SIGTERM
ProcExit(id, kind) ==
    /\ kind \in {"xvfb", "wm"}
    /\ proc[id][kind] = "terminating"
    /\ proc' = [proc EXCEPT ![id][kind] = "none"]
    /\ UNCHANGED <<activeRecordings, nextId, xvfbProcess, wmProcess, task, tempFile, unlinkFailed, timers,
                   response, server, seen, events, heldAtTerminal, spawned, bucket>>

\* Xvfb dies on its own while startXvfb waits (the only time the code asks
\* whether it is alive); a child that exits emits no 'error' event
XvfbDies(id) ==
    /\ task[id].pc = "xvfb_pending"
    /\ proc[id].xvfb = "running"
    /\ proc' = [proc EXCEPT ![id].xvfb = "none"]
    /\ UNCHANGED <<activeRecordings, nextId, xvfbProcess, wmProcess, task, tempFile, unlinkFailed, timers,
                   response, server, seen, events, heldAtTerminal, spawned, bucket>>

\* an eviction that does not wait for the timer set at the end of the job
Evict_NoTimer(id) ==
    /\ server = "up"
    /\ id \in Known
    /\ id \notin timers.settle \cup timers.resolve
    /\ task[id].pc \in {"done", "upload"}
    /\ \A k \in Kinds : proc[id][k] # "terminating"
    /\ activeRecordings' = [j \in Known \ {id} |-> activeRecordings[j]]
    /\ timers' = [timers EXCEPT !.evict = @ \ {id}]
    /\ task' = [task EXCEPT ![id] = NoTask]
    /\ seen' = [seen EXCEPT ![id] = <<>>]
    /\ events' = [events EXCEPT ![id] = <<>>]
    /\ heldAtTerminal' = [heldAtTerminal EXCEPT ![id] = {}]
    /\ spawned' = [spawned EXCEPT ![id] = {}]
    /\ tempFile' = [tempFile EXCEPT ![id] = Absent]
    /\ unlinkFailed' = unlinkFailed \ {id}
    /\ bucket' = [j \in DOMAIN bucket \ {id} |-> bucket[j]]
    /\ UNCHANGED <<nextId, xvfbProcess, wmProcess, proc, response, server>>

\* ---- eviction timer (lines 718-720) and shutdown handler (lines 785-792) ----
\* the 5 minute timer. The shorter startXvfb timers set before it have fired, and
\* the children that were sent SIGTERM have exited by then. The finished task's
\* locals, the histories kept for the entry, and the file and object of the job
\* are no longer followed once the entry is gone.
Evict(id) ==
    /\ server = "up"
    /\ id \in timers.evict
    /\ id \notin timers.settle \cup timers.resolve
    /\ \A k \in Kinds : proc[id][k] # "terminating"
    /\ activeRecordings' = [j \in Known \ {id} |-> activeRecordings[j]]
    /\ timers' = [timers EXCEPT !.evict = @ \ {id}]
    /\ task' = [task EXCEPT ![id] = NoTask]
    /\ seen' = [seen EXCEPT ![id] = <<>>]
    /\ events' = [events EXCEPT ![id] = <<>>]
    /\ heldAtTerminal' = [heldAtTerminal EXCEPT ![id] = {}]
    /\ spawned' = [spawned EXCEPT ![id] = {}]
    /\ tempFile' = [tempFile EXCEPT ![id] = Absent]
    /\ unlinkFailed' = unlinkFailed \ {id}
    /\ bucket' = [j \in DOMAIN bucket \ {id} |-> bucket[j]]
    /\ UNCHANGED <<nextId, xvfbProcess, wmProcess, proc, response, server>>

\* GET /recording/:id (lines 726-744): the entry, or 404 when there is none
GetRecording(id) ==
    IF id \in Known
    THEN [code |-> 200, body |-> activeRecordings[id]]
    ELSE [code |-> 404, body |-> [error |-> "Recording not found or expired"]]

\* ---- object names and the bucket listing ----
\* the object name `slideshow_${recordingId}.mp4` (line 607), as its three parts
minioObjectName(id) == <<"slideshow_", ToString(id), ".mp4">>

\* String.replace(tok, ''): the first occurrence of tok is removed
RECURSIVE RemoveFirst(_, _)
RemoveFirst(s, tok) ==
    IF s = <<>> THEN <<>>
    ELSE IF Head(s) = tok THEN Tail(s)
    ELSE <<Head(s)>> \o RemoveFirst(Tail(s), tok)

\* listMinIORecordings (lines 154-189): one record per .mp4 object of the bucket
listMinIORecordings ==
    {[recordingId |-> RemoveFirst(RemoveFirst(minioObjectName(id), "slideshow_"), ".mp4"),
      filename |-> minioObjectName(id),
      fileSize |-> bucket[id]] :
        id \in {j \in DOMAIN bucket :
                  minioObjectName(j)[Len(minioObjectName(j))] = ".mp4"}}

\* cleanup on SIGINT / SIGTERM: stopXvfb, then process.exit
Shutdown ==
    /\ server = "up"
    /\ proc' = stopXvfb(xvfbProcess, wmProcess, proc).proc
    /\ Halt("exited")
    /\ UNCHANGED <<nextId, tempFile, unlinkFailed, spawned, bucket>>

Next ==
    \/ \E url \in UrlInputs, timings \in TimingInputs : RejectInvalid(url, timings)
    \/ \E url \in UrlInputs, timings \in TimingInputs : RejectBusy(url, timings)
    \/ \E url \in UrlInputs, timings \in TimingInputs, path \in PathInputs :
          Admit(url, timings, path)
    \/ \E id \in JobIds, ok \in BOOLEAN : XvfbSpawn(id, ok)
    \/ \E id \in JobIds : XvfbError(id)
    \/ \E id \in JobIds, path \in PathInputs, wmOk \in BOOLEAN : XvfbSettle(id, path, wmOk)
    \/ \E id \in JobIds : WmError(id)
    \/ \E id \in JobIds, path \in PathInputs : XvfbResolve(id, path)
    \/ \E id \in JobIds, ok \in BOOLEAN : BrowserLaunch(id, ok)
    \/ \E id \in JobIds, ok \in BOOLEAN : PageSetup(id, ok)
    \/ \E id \in JobIds, ok \in BOOLEAN : Goto(id, ok)
    \/ \E id \in JobIds, signin \in BOOLEAN : PageSettle(id, signin)
    \/ \E id \in JobIds, spawnOk \in BOOLEAN : Prime(id, spawnOk)
    \/ \E id \in JobIds : FfmpegSpawnError(id)
    \/ \E id \in JobIds : FfmpegWarmup(id)
    \/ \E id \in JobIds, keyOk \in BOOLEAN : SlideStep(id, keyOk)
    \/ \E id \in JobIds : FinalHold(id)
    \/ \E id \in JobIds : FfmpegExit(id)
    \/ \E id \in JobIds : StopTimeout(id)
    \/ \E id \in JobIds, ok \in BOOLEAN : BrowserClose(id, ok)
    \/ \E id \in JobIds, ok \in BOOLEAN, unlinkOk \in BOOLEAN : Upload(id, ok, unlinkOk)
    \/ \E id \in JobIds : FfmpegWrite(id)
    \/ \E id \in JobIds : FfmpegProgress(id)
    \/ \E id \in JobIds, kind \in Kinds : ProcExit(id, kind)
    \/ \E id \in JobIds : XvfbDies(id)
    \/ \E id \in JobIds : Evict(id)
    \/ Shutdown

Spec == Init /\ [][Next]_vars

\* ---- fairness: every timer fires and every pending call settles ----
\* the steps of job id that a timer or the settlement of an awaited call triggers
JobStep(id) ==
    \/ \E ok \in BOOLEAN : XvfbSpawn(id, ok)
    \/ XvfbError(id)
    \/ \E path \in PathInputs, wmOk \in BOOLEAN : XvfbSettle(id, path, wmOk)
    \/ WmError(id)
    \/ \E path \in PathInputs : XvfbResolve(id, path)
    \/ \E ok \in BOOLEAN : BrowserLaunch(id, ok)
    \/ \E ok \in BOOLEAN : PageSetup(id, ok)
    \/ \E ok \in BOOLEAN : Goto(id, ok)
    \/ \E signin \in BOOLEAN : PageSettle(id, signin)
    \/ \E spawnOk \in BOOLEAN : Prime(id, spawnOk)
    \/ FfmpegSpawnError(id)
    \/ FfmpegWarmup(id)
    \/ \E keyOk \in BOOLEAN : SlideStep(id, keyOk)
    \/ FinalHold(id)
    \/ StopTimeout(id)
    \/ \E ok \in BOOLEAN : BrowserClose(id, ok)
    \/ \E ok \in BOOLEAN, unlinkOk \in BOOLEAN : Upload(id, ok, unlinkOk)

LiveSpec == Init /\ [][Next]_vars /\ \A id \in JobIds : WF_vars(JobStep(id))

\* the timer set by setTimeout(resolve, 10000) in the finally block of
\* recordSlideshow fires unless the wait has ended before
StopSpec == Init /\ [][Next]_vars /\ \A id \in JobIds : WF_vars(StopTimeout(id))

TypeOK ==
    /\ Known \subseteq JobIds
    /\ nextId \in 1..(MaxJobs + 1)
    /\ xvfbProcess \in {Null} \cup JobIds
    /\ wmProcess \in {Null} \cup JobIds
    /\ server \in {"up", "crashed", "exited"}
    /\ \A id \in JobIds : tempFile[id] \in {Absent} \cup (0..MaxSize)
    /\ unlinkFailed \subseteq JobIds


\* ---- api-server.js: the synchronous recording API ----
\* Its globals xvfbProcess and wmProcess, its child processes and the position
\* of each request handler are kept in the variables xvfbProcess, wmProcess,
\* proc and task; the handler of POST /record answers only when the recording
\* has ended, and there is no job table. Window manager and encoder are taken
\* to be installed (their spawn does not fail).

\* validation of the request body (api-server.js lines 289-299)
ApiValidate(url, timings) ==
    IF url = "" THEN 400
    ELSE IF \E k \in 1..Len(timings) : timings[k] <= 0 THEN 400
    ELSE 0

\* checkDependencies of api-server.js: no alternative browser name
ApiCheckDependencies(path) ==
    {"xvfb-run", "google-chrome", "ffmpeg", "node"} \ path

\* request bodies of the synchronous API
ApiTimingInputs == SeqsUpTo(0..MaxT, 1)

ApiUnused ==
    <<activeRecordings, timers, seen, events, heldAtTerminal, bucket, unlinkFailed,
      tempFile, server>>

\* catch block (500) and finally block (stopXvfb) of the handler
ApiFails(id, t, p) ==
    LET s == stopXvfb(xvfbProcess, wmProcess, p)
    IN  /\ response' = [code |-> 500, id |-> id]
        /\ xvfbProcess' = s.xvfbProcess
        /\ wmProcess' = s.wmProcess
        /\ proc' = s.proc
        /\ task' = [t EXCEPT ![id].pc = "done", ![id].pendingError = "none"]

\* the finally block of recordSlideshow, entered with error err ("none" if none)
ApiRecFinally(id, err, t, p) ==
    IF t[id].ffmpegProcess = "live"
    THEN /\ task' = [t EXCEPT ![id].pc = "stop_wait", ![id].pendingError = err,
                              ![id].ffmpegProcess = "killed"]
         /\ proc' = Kill(p, id, "ffmpeg")
         /\ UNCHANGED <<response, xvfbProcess, wmProcess>>
    ELSE IF t[id].browser = "open"
    THEN /\ task' = [t EXCEPT ![id].pc = "browser_close", ![id].pendingError = err]
         /\ proc' = p
         /\ UNCHANGED <<response, xvfbProcess, wmProcess>>
    ELSE ApiFails(id, t, p)

ApiReject(url, timings) ==
    /\ ApiValidate(url, timings) # 0
    /\ response' = [code |-> 400, id |-> 0]
    /\ UNCHANGED <<nextId, xvfbProcess, wmProcess, task, proc, spawned>>
    /\ UNCHANGED ApiUnused

\* POST /record with a valid body: there is no busy check; dependency check,
\* then startXvfb up to its 3000 ms timer (pkill, spawn, global handle replaced)
ApiPost(url, timings, path, ok) ==
    /\ ApiValidate(url, timings) = 0
    /\ nextId <= MaxJobs
    /\ LET id == nextId
           t == [task EXCEPT ![id].timings = timings]
       IN  /\ nextId' = id + 1
           /\ IF ApiCheckDependencies(path) # {}
              THEN /\ ApiFails(id, t, proc)
                   /\ UNCHANGED spawned
              ELSE /\ xvfbProcess' = id
                   /\ IF ok
                      THEN /\ proc' = [Pkill(proc) EXCEPT ![id].xvfb = "running"]
                           /\ spawned' = [spawned EXCEPT ![id] = @ \cup {"xvfb"}]
                           /\ task' = [t EXCEPT ![id].pc = "xvfb_pending"]
                      ELSE /\ proc' = Pkill(proc)
                           /\ task' = [t EXCEPT ![id].pc = "xvfb_pending",
                                                ![id].errEvent = {"xvfb"}]
                           /\ UNCHANGED spawned
                   /\ UNCHANGED <<response, wmProcess>>
    /\ UNCHANGED ApiUnused

\* the 'error' event of Xvfb: reject; the 3000 ms timer stays pending
ApiXvfbError(id) ==
    /\ task[id].pc = "xvfb_pending"
    /\ "xvfb" \in task[id].errEvent
    /\ LET s == stopXvfb(xvfbProcess, wmProcess, proc)
       IN  /\ response' = [code |-> 500, id |-> id]
           /\ xvfbProcess' = s.xvfbProcess
           /\ wmProcess' = s.wmProcess
           /\ proc' = s.proc
           /\ task' = [task EXCEPT ![id].pc = "xvfb_rejected", ![id].errEvent = {}]
    /\ UNCHANGED <<nextId, spawned>>
    /\ UNCHANGED ApiUnused

\* the 3000 ms timer of startXvfb: test of the global handle, fluxbox, resolve
\* (without effect on a promise already rejected), else reject; on resolve
\* recordSlideshow runs up to puppeteer.launch
ApiXvfbSettle(id) ==
    /\ task[id].pc \in {"xvfb_pending", "xvfb_rejected"}
    /\ task[id].errEvent = {}
    /\ IF xvfbProcess # Null
       THEN /\ wmProcess' = id
            /\ proc' = [proc EXCEPT ![id].wm = "running"]
            /\ spawned' = [spawned EXCEPT ![id] = @ \cup {"wm"}]
            /\ task' = [task EXCEPT ![id].pc =
                           IF @ = "xvfb_pending" THEN "launch" ELSE "done"]
            /\ UNCHANGED <<response, xvfbProcess>>
       ELSE IF task[id].pc = "xvfb_pending"
       THEN /\ ApiFails(id, task, proc)
            /\ UNCHANGED spawned
       ELSE /\ task' = [task EXCEPT ![id].pc = "done"]
            /\ UNCHANGED <<response, xvfbProcess, wmProcess, proc, spawned>>
    /\ UNCHANGED nextId
    /\ UNCHANGED ApiUnused

\* puppeteer.launch settles; newPage, setViewport and page.goto are issued
ApiLaunch(id, ok) ==
    /\ task[id].pc = "launch"
    /\ IF ok
       THEN /\ task' = [task EXCEPT ![id].pc = "goto", ![id].browser = "open"]
            /\ proc' = [proc EXCEPT ![id].chrome = "running"]
            /\ spawned' = [spawned EXCEPT ![id] = @ \cup {"chrome"}]
            /\ UNCHANGED <<response, xvfbProcess, wmProcess>>
       ELSE /\ ApiRecFinally(id, "browser launch failed", task, proc)
            /\ UNCHANGED spawned
    /\ UNCHANGED nextId
    /\ UNCHANGED ApiUnused

\* page.goto settles and the 8000 ms wait ends: sign-in test, then ffmpeg is spawned
ApiGoto(id, ok) ==
    /\ task[id].pc = "goto"
    /\ IF ok
       THEN /\ task' = [task EXCEPT ![id].pc = "transitions", ![id].ffmpegProcess = "live",
                                    ![id].i = 1, ![id].currentTime = 0]
            /\ proc' = [proc EXCEPT ![id].ffmpeg = "running"]
            /\ spawned' = [spawned EXCEPT ![id] = @ \cup {"ffmpeg"}]
            /\ UNCHANGED <<response, xvfbProcess, wmProcess>>
       ELSE /\ ApiRecFinally(id, "navigation failed", task, proc)
            /\ UNCHANGED spawned
    /\ UNCHANGED nextId
    /\ UNCHANGED ApiUnused

\* one iteration of the slide loop, or its end with the final hold
ApiSlideStep(id, keyOk) ==
    /\ task[id].pc = "transitions"
    /\ IF task[id].i > Len(task[id].timings)
       THEN keyOk /\ ApiRecFinally(id, "none", task, proc)
       ELSE IF keyOk
       THEN /\ task' = [task EXCEPT ![id].i = @ + 1,
                                    ![id].currentTime = task[id].timings[task[id].i]]
            /\ UNCHANGED <<response, xvfbProcess, wmProcess, proc>>
       ELSE ApiRecFinally(id, "key press failed", task, proc)
    /\ UNCHANGED <<nextId, spawned>>
    /\ UNCHANGED ApiUnused

\* the wait for the encoder ends ('close' event when exited, else the 5000 ms
\* timer); browser.close is issued
ApiStopDone(id, exited) ==
    /\ task[id].pc = "stop_wait"
    /\ exited => proc[id].ffmpeg = "terminating"
    /\ task' = [task EXCEPT ![id].pc = "browser_close"]
    /\ proc' = IF exited THEN [proc EXCEPT ![id].ffmpeg = "none"] ELSE proc
    /\ UNCHANGED <<nextId, spawned, response, xvfbProcess, wmProcess>>
    /\ UNCHANGED ApiUnused

\* browser.close settles; the handler checks the file, answers, and its finally
\* block calls stopXvfb on whatever the global handles refer to
ApiBrowserClose(id, ok, exists) ==
    /\ task[id].pc = "browser_close"
    /\ LET t == [task EXCEPT ![id].browser = "closed"]
           p == [proc EXCEPT ![id].chrome = "none"]
           s == stopXvfb(xvfbProcess, wmProcess, p)
       IN  IF ok /\ exists /\ task[id].pendingError = "none"
           THEN /\ response' = [code |-> 200, id |-> id]
                /\ xvfbProcess' = s.xvfbProcess
                /\ wmProcess' = s.wmProcess
                /\ proc' = s.proc
                /\ task' = [t EXCEPT ![id].pc = "done"]
           ELSE ApiFails(id, t, p)
    /\ UNCHANGED <<nextId, spawned>>
    /\ UNCHANGED ApiUnused

\* a child that was sent a signal exits
ApiProcExit(id, kind) ==
    /\ proc[id][kind] = "terminating"
    /\ task[id].pc # "stop_wait"
    /\ proc' = [proc EXCEPT ![id][kind] = "none"]
    /\ UNCHANGED <<nextId, spawned, response, xvfbProcess, wmProcess, task>>
    /\ UNCHANGED ApiUnused

ApiNext ==
    \/ \E url \in UrlInputs, timings \in ApiTimingInputs : ApiReject(url, timings)
    \/ \E url \in UrlInputs, timings \in ApiTimingInputs, path \in PathInputs,
          ok \in BOOLEAN : ApiPost(url, timings, path, ok)
    \/ \E id \in JobIds : ApiXvfbError(id)
    \/ \E id \in JobIds : ApiXvfbSettle(id)
    \/ \E id \in JobIds, ok \in BOOLEAN : ApiLaunch(id, ok)
    \/ \E id \in JobIds, ok \in BOOLEAN : ApiGoto(id, ok)
    \/ \E id \in JobIds, keyOk \in BOOLEAN : ApiSlideStep(id, keyOk)
    \/ \E id \in JobIds, exited \in BOOLEAN : ApiStopDone(id, exited)
    \/ \E id \in JobIds, ok \in BOOLEAN, exists \in BOOLEAN : ApiBrowserClose(id, ok, exists)
    \/ \E id \in JobIds, kind \in Kinds : ApiProcExit(id, kind)

ApiSpec == Init /\ [][ApiNext]_vars

\* ---- the slide loop of recordSlideshow on its own (lines 476-496) ----
\* The loop does not validate its list: it is run here on every list of positive
\* timings, ascending or not, from the point where recordSlideshow enters it
\* (display, browser and encoder of job 1 running).
SchedInputs == SeqsUpTo(1..SchedMaxT, SchedMaxLen)

SchedInit ==
    \E ts \in SchedInputs :
        /\ activeRecordings = (1 :> [NewEntry(ts) EXCEPT !.status = "recording"])
        /\ nextId = 2
        /\ xvfbProcess = 1
        /\ wmProcess = Null
        /\ task = [id \in JobIds |->
                      IF id = 1
                      THEN [NoTask EXCEPT !.pc = "transitions", !.browser = "open",
                                          !.ffmpegProcess = "live", !.i = 1,
                                          !.currentTime = 0, !.timings = ts,
                                          !.navAttempt = 1, !.navTried = <<Strategy(1)>>]
                      ELSE NoTask]
        /\ proc = [id \in JobIds |->
                      IF id = 1
                      THEN [NoProc EXCEPT !.xvfb = "running", !.chrome = "running",
                                          !.ffmpeg = "running"]
                      ELSE NoProc]
        /\ tempFile = [id \in JobIds |-> Absent]
        /\ unlinkFailed = {}
        /\ timers = [evict |-> {}, settle |-> {}, resolve |-> {}]
        /\ response = [code |-> 200, id |-> 1, status |-> "started", at |-> "starting"]
        /\ server = "up"
        /\ seen = [id \in JobIds |->
                      IF id = 1
                      THEN <<"starting", "checking_dependencies", "starting_virtual_display",
                             "recording">>
                      ELSE <<>>]
        /\ events = [id \in JobIds |-> <<>>]
        /\ heldAtTerminal = [id \in JobIds |-> {}]
        /\ spawned = [id \in JobIds |->
                         IF id = 1 THEN {"xvfb", "chrome", "ffmpeg"} ELSE {}]
        /\ bucket = <<>>

SchedNext ==
    \/ \E keyOk \in BOOLEAN : SlideStep(1, keyOk)
    \/ FinalHold(1)

SchedSpec == SchedInit /\ [][SchedNext]_vars

\* ---- the stderr handler of the encoder on its own (lines 458-472) ----
\* The handler is run on every job table the busy check allows (no entry, or one
\* entry in any status, no progress marker yet) and with the encoder of any job
\* alive, one that has outlived the entry of its job included.
ProgressStatuses ==
    {"starting", "checking_dependencies", "starting_virtual_display", "recording",
     "uploading_to_minio", "completed", "failed"}

ProgressInit ==
    /\ \E tbl \in {<<>>} \cup {(id :> [NewEntry(<<>>) EXCEPT !.status = st]) :
                                   id \in JobIds, st \in ProgressStatuses} :
          activeRecordings = tbl
    /\ \E alive \in [JobIds -> {"none", "running", "terminating"}] :
          proc = [id \in JobIds |-> [NoProc EXCEPT !.ffmpeg = alive[id]]]
    /\ nextId = 1
    /\ xvfbProcess = Null
    /\ wmProcess = Null
    /\ task = [id \in JobIds |-> NoTask]
    /\ tempFile = [id \in JobIds |-> Absent]
    /\ unlinkFailed = {}
    /\ timers = [evict |-> {}, settle |-> {}, resolve |-> {}]
    /\ response = [code |-> 0, id |-> 0]
    /\ server = "up"
    /\ seen = [id \in JobIds |-> <<>>]
    /\ events = [id \in JobIds |-> <<>>]
    /\ heldAtTerminal = [id \in JobIds |-> {}]
    /\ spawned = [id \in JobIds |-> {}]
    /\ bucket = <<>>

ProgressNext == \E id \in JobIds : FfmpegProgress(id)

ProgressSpec == ProgressInit /\ [][ProgressNext]_vars

\* ---- GET /health (lines 522-553): checkDependencies on its own ----
\* The handler answers with the result of checkDependencies; `which` keeps what
\* the calls of `which` resolved when it ran. Every subset of the command names
\* is tried. The answer does not wait on anything that changes the result.
Health(path, minioOk) ==
    /\ server = "up"
    /\ response' = [code |-> 200, id |-> 0,
                    status |-> IF checkDependencies(path) = {} THEN "healthy" ELSE "unhealthy",
                    missing |-> checkDependencies(path),
                    minio |-> IF minioOk THEN "connected" ELSE "error",
                    which |-> path]
    /\ UNCHANGED <<activeRecordings, nextId, xvfbProcess, wmProcess, task, proc, tempFile,
                   unlinkFailed, timers, server, seen, events, heldAtTerminal, spawned, bucket>>

DepNext == \E path \in SUBSET Commands, minioOk \in BOOLEAN : Health(path, minioOk)

DepSpec == Init /\ [][DepNext]_vars

\* ---- convertToPresentUrl (lines 322-325) on its own ----
\* A URL is a sequence of pieces: '/edit', '/present', '#', or other text ("x")
\* in which none of the three occurs.
UrlPieces == {"/edit", "/present", "#", "x"}
UrlStrings == SeqsUpTo(UrlPieces, UrlMaxLen)

\* String.includes(piece)
Includes(s, piece) == \E k \in 1..Len(s) : s[k] = piece

\* String.replace(piece, by): the first occurrence of piece becomes the pieces by
RECURSIVE ReplaceFirst(_, _, _)
ReplaceFirst(s, piece, by) ==
    IF s = <<>> THEN <<>>
    ELSE IF Head(s) = piece THEN by \o Tail(s)
    ELSE <<Head(s)>> \o ReplaceFirst(Tail(s), piece, by)

\* a conversion without the test for '/present'
convertToPresentUrl_NoGuard(url) ==
    ReplaceFirst(ReplaceFirst(url, "/edit", <<"/present">>), "#", <<"/present", "#">>)

\* convertToPresentUrl (lines 322-325)
convertToPresentUrl(url) ==
    IF Includes(url, "/present") THEN url
    ELSE ReplaceFirst(ReplaceFirst(url, "/edit", <<"/present">>), "#", <<"/present", "#">>)

\* the entry of job 1 keeps the URL as given and as converted so far
ConvInit ==
    /\ \E u \in UrlStrings :
          activeRecordings = (1 :> [given |-> u, slideUrl |-> u, times |-> 0])
    /\ nextId = 2
    /\ xvfbProcess = Null
    /\ wmProcess = Null
    /\ task = [id \in JobIds |-> NoTask]
    /\ proc = [id \in JobIds |-> NoProc]
    /\ tempFile = [id \in JobIds |-> Absent]
    /\ unlinkFailed = {}
    /\ timers = [evict |-> {}, settle |-> {}, resolve |-> {}]
    /\ response = [code |-> 0, id |-> 0]
    /\ server = "up"
    /\ seen = [id \in JobIds |-> <<>>]
    /\ events = [id \in JobIds |-> <<>>]
    /\ heldAtTerminal = [id \in JobIds |-> {}]
    /\ spawned = [id \in JobIds |-> {}]
    /\ bucket = <<>>

\* the URL kept is converted, a first and a second time
Convert ==
    /\ activeRecordings[1].times < 2
    /\ activeRecordings' =
          [activeRecordings EXCEPT ![1].slideUrl = convertToPresentUrl(@),
                                   ![1].times = @ + 1]
    /\ UNCHANGED <<nextId, xvfbProcess, wmProcess, task, proc, tempFile, unlinkFailed, timers,
                   response, server, seen, events, heldAtTerminal, spawned, bucket>>

ConvSpec == ConvInit /\ [][Convert]_vars

\* ---- properties ----

\* a POST /record with this body is handled in the step
Submit(url, timings) ==
    \/ RejectInvalid(url, timings)
    \/ RejectBusy(url, timings)
    \/ \E path \in PathInputs : Admit(url, timings, path)

AllButResponse ==
    <<activeRecordings, nextId, xvfbProcess, wmProcess, task, proc, tempFile, unlinkFailed, timers,
      server, seen, events, heldAtTerminal, spawned, bucket>>

StrictlyAscending(ts) == \A k \in 1..(Len(ts) - 1) : ts[k] < ts[k + 1]
Positive(ts) == \A k \in 1..Len(ts) : ts[k] > 0
GoodTimings(ts) == Len(ts) > 0 /\ Positive(ts) /\ StrictlyAscending(ts)

IsTerminal(id) == id \in Known /\ activeRecordings[id].status \in Terminal

\* C1: in every reachable state at most one job is neither completed nor failed.
C1_AtMostOneActive == Cardinality(NonTerminalJobs) <= 1

\* a second job is running after the first was evicted, and a submission was refused
C1_Witness ==
    /\ nextId > 2
    /\ Cardinality(NonTerminalJobs) = 1
    /\ response.code = 429

\* a step that answers a POST /record: only such a step sends a response
SubmitStep == response' # response /\ server' = "up"

\* C2 (as stated): every submission made while a job is non-terminal is answered
\* 429, creates no job and changes nothing else.
C2_AnySubmissionGetsBusy ==
    [][(NonTerminalJobs # {} /\ SubmitStep)
          => (response'.code = 429 /\ UNCHANGED AllButResponse)]_vars

\* C2 (amended): a submission made while a job is non-terminal is answered 429, or
\* 400 when its body fails validation; either way it creates no job and changes
\* nothing but the response, so the active job goes on as before.
C2_BusyFrame ==
    [][(NonTerminalJobs # {} /\ SubmitStep)
          => (response'.code \in {400, 429} /\ UNCHANGED AllButResponse)]_vars

\* a job is in its recording stage and the last submission was refused as busy
C2_Witness ==
    /\ response.code = 429
    /\ \E id \in Known : activeRecordings[id].status = "recording" /\ task[id].pc = "transitions"

\* C3: a valid submission is refused as busy only if some job is non-terminal.
C3_BusyOnlyIfActive ==
    [][(SubmitStep /\ response'.code = 429) => NonTerminalJobs # {}]_vars

\* C4: a request whose timings are empty, not all positive or not strictly
\* ascending is rejected with 400 and changes nothing: no job, no process.
C4_BadTimingsRejected ==
    [][\A url \in UrlInputs, timings \in TimingInputs :
          (~GoodTimings(timings) /\ Submit(url, timings))
             => (response'.code = 400 /\ UNCHANGED AllButResponse)]_vars

\* C5: no error of a job stage escapes the background task: the server never
\* dies of an uncaught exception.
C5_NoUncaughtError == server # "crashed"

\* C6 (as stated): once a job is completed or failed, none of its display,
\* window-manager, browser or encoder processes exists.
C6_NoProcessAtTerminal ==
    \A id \in JobIds : IsTerminal(id) => \A k \in Kinds : proc[id][k] = "none"

\* C6 (amended): once a job is completed or failed, its browser process is gone,
\* the global handles no longer refer to its display or window manager, and each
\* of its display, window-manager and encoder processes has exited or has been
\* sent SIGTERM.
C6_ReleasedAtTerminal ==
    \A id \in JobIds :
        IsTerminal(id) =>
            /\ proc[id].chrome = "none"
            /\ xvfbProcess # id /\ wmProcess # id
            /\ \A k \in Kinds : proc[id][k] \in {"none", "terminating"}

\* a job failed after display, window manager, browser and encoder were all started
C6_Witness ==
    \E id \in JobIds :
        /\ IsTerminal(id)
        /\ activeRecordings[id].status = "failed"
        /\ spawned[id] = Kinds

\* C7: when the terminal status of a job is written, the teardown of its capture,
\* browser and display has already run.
C7_TeardownBeforeTerminal ==
    \A id \in JobIds : IsTerminal(id) => heldAtTerminal[id] = {}

\* C8: running stopXvfb twice in a row raises no error and the second run changes
\* nothing, whatever was started.
C8_CleanupIdempotent ==
    LET s1 == stopXvfb(xvfbProcess, wmProcess, proc)
        s2 == stopXvfb(s1.xvfbProcess, s1.wmProcess, s1.proc)
    IN  /\ ~s1.raised
        /\ ~s2.raised
        /\ s2 = s1

\* the cleanup of a failed job has run with a display and a window manager started,
\* and (another state) with nothing started
C8_Witness ==
    \E id \in JobIds :
        /\ IsTerminal(id)
        /\ {"xvfb", "wm"} \subseteq spawned[id]
        /\ xvfbProcess = Null /\ wmProcess = Null

\* the events of an error-free slide loop over timings ts
RECURSIVE Schedule(_, _)
Schedule(ts, n) ==
    IF n = 0 THEN <<>>
    ELSE Schedule(ts, n - 1)
           \o <<<<"wait", ts[n] - (IF n = 1 THEN 0 ELSE ts[n - 1])>>, <<"advance", n>>>>

RECURSIVE SumWaits(_)
SumWaits(ev) ==
    IF ev = <<>> THEN 0
    ELSE (IF Head(ev)[1] = "wait" THEN Head(ev)[2] ELSE 0) + SumWaits(Tail(ev))

LoopDone(id) == events[id] # <<>> /\ events[id][Len(events[id])][1] = "hold"

\* C9: for strictly ascending positive timings an error-free loop presses the
\* advance key once per element, in order, after a wait of timings[i] - timings[i-1]
\* (timings[1] for the first); the waits sum to the last timing and the trailing
\* hold comes last.
C9_ScheduleExact ==
    \A id \in JobIds :
        (LoopDone(id) /\ GoodTimings(task[id].timings)) =>
            LET ts == task[id].timings
            IN  /\ events[id] = Schedule(ts, Len(ts)) \o <<<<"hold", 5>>>>
                /\ SumWaits(events[id]) = ts[Len(ts)]

\* the loop over [3, 6, 9] has finished
C9_Witness ==
    \E id \in JobIds : LoopDone(id) /\ task[id].timings = <<3, 6, 9>>

IsPrefix(a, b) == Len(a) <= Len(b) /\ \A k \in 1..Len(a) : a[k] = b[k]

\* a status history follows chain: a prefix of it, or a prefix of it then 'failed'
Follows(h, chain) ==
    \/ IsPrefix(h, chain)
    \/ /\ h # <<>>
       /\ h[Len(h)] = "failed"
       /\ IsPrefix(SubSeq(h, 1, Len(h) - 1), chain)

\* the stages of the specification, in the status names of the code
SpecStages ==
    <<"starting", "checking_dependencies", "starting_virtual_display", "launching_browser",
      "recording", "uploading_to_minio", "completed">>
CodeStages ==
    <<"starting", "checking_dependencies", "starting_virtual_display", "recording",
      "uploading_to_minio", "completed">>

\* C10 (as stated): the statuses of a job form a prefix of Queued,
\* CheckingDependencies, StartingDisplay, LaunchingBrowser, Recording, Uploading,
\* Completed, optionally followed by Failed.
C10_SpecStageOrder == \A id \in JobIds : Follows(seen[id], SpecStages)

\* C10 (amended): the statuses of a job form a prefix of starting,
\* checking_dependencies, starting_virtual_display, recording, uploading_to_minio,
\* completed, or a prefix without completed followed by failed; the job reports
\* recording while its browser is launched, navigated and primed.
C10_CodeStageOrder ==
    \A id \in JobIds :
        /\ Follows(seen[id], CodeStages)
        /\ \A k \in 1..Len(seen[id]) : seen[id][k] = "completed" => k = Len(seen[id])
        /\ task[id].pc \in {"launch", "page_setup", "goto", "page_settle", "prime"}
              => activeRecordings[id].status = "recording"

\* a job went through every stage to completed
C10_Witness == \E id \in JobIds : seen[id] = CodeStages

\* C11: once a job is completed or failed, no step (job step, encoder callback,
\* timer) changes its status, artifact reference, size or error while its entry exists
C11_TerminalAbsorbing ==
    [][\A id \in JobIds :
          (IsTerminal(id) /\ id \in DOMAIN activeRecordings')
             => /\ activeRecordings'[id].status = activeRecordings[id].status
                /\ activeRecordings'[id].downloadUrl = activeRecordings[id].downloadUrl
                /\ activeRecordings'[id].fileSize = activeRecordings[id].fileSize
                /\ activeRecordings'[id].error = activeRecordings[id].error]_vars

\* a completed job whose encoder still runs (its stderr callback can still fire)
\* and has reported progress
C11_Witness ==
    \E id \in JobIds :
        /\ IsTerminal(id)
        /\ activeRecordings[id].status = "completed"
        /\ proc[id].ffmpeg = "terminating"
        /\ activeRecordings[id].ffmpegOutput = "marker"

\* C12: the status query of a failed job carries an error message; that of a
\* completed job carries the artifact URL and a size, and no error
C12_TerminalFields ==
    \A id \in JobIds :
        LET r == GetRecording(id)
        IN  r.code = 200 =>
              /\ r.body.status = "failed" => r.body.error # "none"
              /\ r.body.status = "completed"
                    => /\ r.body.downloadUrl # "none"
                       /\ r.body.fileSize > 0
                       /\ r.body.error = "none"

\* a completed job is queried
C12_Witness ==
    \E id \in JobIds :
        /\ GetRecording(id).code = 200
        /\ GetRecording(id).body.status = "completed"
        /\ GetRecording(id).body.downloadUrl = "url"

\* C13: when the sign-in pattern is found after the settle delay, the job ends
\* failed with the authentication-required error, no navigation follows, and no
\* encoder process is ever started for it
C13_AuthWall ==
    [][\A id \in JobIds :
          /\ task'[id].pendingError = "Authentication required"
                => /\ task'[id].pc = "browser_close"
                   /\ "ffmpeg" \notin spawned'[id]
          /\ (task[id].pendingError = "Authentication required" /\ IsTerminal(id)')
                => /\ activeRecordings'[id].status = "failed"
                   /\ activeRecordings'[id].error = "Authentication required"
                   /\ "ffmpeg" \notin spawned'[id]]_vars

\* the step in which recordSlideshow returns without error for job id: the wait
\* for the encoder or the browser close ends, and the job goes on to the file checks
RecordingReturns(id) ==
    /\ task[id].pc \in {"stop_wait", "browser_close"}
    /\ task[id].pendingError = "none"
    /\ task'[id].pc \in {"done", "upload"}
    /\ activeRecordings'[id].error # "browser close failed"

EmptyOutputErrors == {"Recording file was not created", "Recording file is empty"}

Range(s) == {s[k] : k \in 1..Len(s)}

\* C14 as stated: when recordSlideshow returns without error and the output file
\* is missing or empty, the job fails with the empty-output error, the file is
\* gone afterwards, and no upload is attempted
C14_EmptyOutputDeleted ==
    [][\A id \in JobIds :
          (RecordingReturns(id) /\ tempFile[id] \in {Absent, 0})
             => /\ activeRecordings'[id].status = "failed"
                /\ activeRecordings'[id].error \in EmptyOutputErrors
                /\ task'[id].pc = "done"
                /\ id \notin DOMAIN bucket'
                /\ "uploading_to_minio" \notin Range(seen'[id])
                /\ tempFile'[id] = Absent]_vars

\* C14 amended: as above, and the file is gone afterwards unless the unlink call
\* itself threw (the error is swallowed and the empty file stays)
C14_EmptyOutputHandled ==
    [][\A id \in JobIds :
          (RecordingReturns(id) /\ tempFile[id] \in {Absent, 0})
             => /\ activeRecordings'[id].status = "failed"
                /\ activeRecordings'[id].error =
                      (IF tempFile[id] = Absent THEN "Recording file was not created"
                       ELSE "Recording file is empty")
                /\ task'[id].pc = "done"
                /\ id \notin DOMAIN bucket'
                /\ "uploading_to_minio" \notin Range(seen'[id])
                /\ (tempFile'[id] = Absent \/ id \in unlinkFailed')
                /\ (id \in unlinkFailed' => tempFile[id] = 0)]_vars

\* a job failed on an empty output file, and the file has been deleted
C14_Witness ==
    \E id \in JobIds :
        /\ IsTerminal(id)
        /\ activeRecordings[id].error = "Recording file is empty"
        /\ tempFile[id] = Absent
        /\ id \notin DOMAIN bucket

\* the upload was started, or done, only after the slide loop and the final hold
\* ran to their end
UploadOnlyAfterFullRecording ==
    \A id \in JobIds :
        (id \in Known /\ (id \in DOMAIN bucket \/ "uploading_to_minio" \in Range(seen[id])))
           => (LoopDone(id) /\ Len(events[id]) = 2 * Len(task[id].timings) + 1)

\* C15 as stated: an object is uploaded only for a job whose recording ran to its
\* end without error, and a failed job has no local file left and no object
C15_PartialNeverKept ==
    /\ UploadOnlyAfterFullRecording
    /\ \A id \in JobIds :
          (id \in Known /\ activeRecordings[id].status = "failed")
             => (tempFile[id] = Absent /\ id \notin DOMAIN bucket)

\* C15 amended: a failed job has no object, and no local file left unless the
\* unlink call itself threw
C15_PartialNeverUploaded ==
    /\ UploadOnlyAfterFullRecording
    /\ \A id \in JobIds :
          (id \in Known /\ activeRecordings[id].status = "failed")
             => /\ id \notin DOMAIN bucket
                /\ (tempFile[id] = Absent \/ id \in unlinkFailed)

\* a job failed in the middle of the slide loop, after the encoder was started,
\* and its file is gone
C15_Witness ==
    \E id \in JobIds :
        /\ IsTerminal(id)
        /\ activeRecordings[id].error = "key press failed"
        /\ "ffmpeg" \in spawned[id]
        /\ tempFile[id] = Absent
        /\ id \notin DOMAIN bucket

\* C16: the step that ends the upload leaves the job completed, with the object
\* stored and its URL and size in the entry, or failed with an error and no
\* object; either way the local file has been unlinked, and an unlink that
\* threw changes nothing of this
C16_UploadOutcome ==
    [][\A id \in JobIds :
          (task[id].pc = "upload" /\ task'[id].pc = "done")
             => LET e == activeRecordings'[id]
                IN  /\ e.status \in Terminal
                    /\ e.status = "completed" <=> id \in DOMAIN bucket'
                    /\ e.status = "completed"
                          => /\ e.downloadUrl = "url"
                             /\ e.fileSize = task[id].size
                             /\ e.fileSize > 0
                             /\ e.error = "none"
                    /\ e.status = "failed" => (e.error = "upload failed" /\ bucket' = bucket)
                    /\ (tempFile'[id] = Absent \/ id \in unlinkFailed')]_vars

\* a job completed although the unlink of its local file threw
C16_Witness ==
    \E id \in JobIds :
        /\ IsTerminal(id)
        /\ activeRecordings[id].status = "completed"
        /\ id \in DOMAIN bucket
        /\ id \in unlinkFailed
        /\ tempFile[id] # Absent

\* every required tool resolves: xvfb-run, ffmpeg, node and one of the browser names
AllToolsPresent(path) ==
    /\ {"xvfb-run", "ffmpeg", "node"} \subseteq path
    /\ ("google-chrome" \in path \/ "chromium-browser" \in path)

\* C17: an admitted job first reports checking_dependencies, before any process
\* is started for it; when a tool is missing it is failed in the same step, and
\* no display, window manager, browser or encoder is ever started for it
C17_DependenciesFirst ==
    [][/\ nextId' # nextId
          => /\ Len(seen'[nextId]) >= 2
             /\ seen'[nextId][1] = "starting"
             /\ seen'[nextId][2] = "checking_dependencies"
             /\ spawned'[nextId] = {}
             /\ \A url \in UrlInputs, timings \in TimingInputs, path \in PathInputs :
                   (Admit(url, timings, path) /\ ~AllToolsPresent(path))
                      => /\ activeRecordings'[nextId].status = "failed"
                         /\ activeRecordings'[nextId].error = "Missing dependencies"
                         /\ task'[nextId].pc = "done"
       /\ \A id \in DOMAIN activeRecordings' :
             activeRecordings'[id].error = "Missing dependencies"
                => /\ spawned'[id] = {}
                   /\ proc'[id] = NoProc
                   /\ xvfbProcess' # id /\ wmProcess' # id]_vars

\* a job failed on a missing tool, and nothing was started for it
C17_Witness ==
    \E id \in JobIds :
        /\ IsTerminal(id)
        /\ activeRecordings[id].error = "Missing dependencies"
        /\ seen[id] = <<"starting", "checking_dependencies", "failed">>
        /\ spawned[id] = {}

\* C18: every admitted job eventually is completed or failed (unless the server
\* is shut down by a signal first)
C18_EventuallyTerminal ==
    \A id \in JobIds : (id \in Known) ~> (IsTerminal(id) \/ server = "exited")

\* C19: an entry disappears only by its eviction timer, which is armed only for
\* a terminal job and fires once; an admitted job that is not terminal is found by
\* the status query, and an evicted job is not found and never comes back
C19_EntryLifetime ==
    [][\A id \in JobIds :
          /\ (id \in Known /\ id \notin DOMAIN activeRecordings' /\ server' = "up")
                => (IsTerminal(id) /\ id \in timers.evict /\ id \notin timers'.evict)
          /\ id \in timers'.evict => IsTerminal(id)'
          /\ (id < nextId' /\ task'[id].pc \notin {"idle", "done"})
                => (GetRecording(id).code = 200)'
          /\ (id < nextId /\ id \notin Known)
                => (GetRecording(id).code = 404 /\ id \notin timers.evict)'
      ]_vars

\* a job was admitted and evicted: its status query answers 404
C19_Witness ==
    \E id \in JobIds :
        /\ server = "up"
        /\ id < nextId
        /\ GetRecording(id).code = 404
        /\ id \notin timers.evict

\* the processes of one kind that exist (running, or signalled and not yet gone)
Existing(kind) == {id \in JobIds : proc[id][kind] # "none"}

C21_DisplayClosedBeforeUpload ==
    \A id \in JobIds :
        (id \in Known /\ activeRecordings[id].status \in {"uploading_to_minio"} \cup Terminal)
           => proc[id].xvfb = "none"

\* C22: for a completed job the listing shows its object with the size reported
\* on the job (the local size measured before the upload), and the recording id
\* recovered from the object name is the job's id
C22_RoundTrip ==
    \A id \in JobIds :
        (id \in Known /\ activeRecordings[id].status = "completed")
           => \E r \in listMinIORecordings :
                 /\ r.filename = minioObjectName(id)
                 /\ r.recordingId = <<ToString(id)>>
                 /\ r.fileSize = activeRecordings[id].fileSize

\* a request of the synchronous API that uses the display: from the resolve of
\* startXvfb to the end of browser.close
ApiUsesDisplay(id) ==
    task[id].pc \in {"launch", "goto", "transitions", "stop_wait", "browser_close"}

ApiActive(id) == \E kind \in {"xvfb", "chrome", "ffmpeg"} : proc[id][kind] = "running"

\* C23: of two requests of api-server.js, never both have a display, browser or
\* encoder running, and a request that uses the display still owns the global
\* handle and its display has not been signalled
C23_OneRecordingAtATime ==
    /\ \A a, b \in JobIds : a # b => ~(ApiActive(a) /\ ApiActive(b))
    /\ \A id \in JobIds :
          ApiUsesDisplay(id) => (xvfbProcess = id /\ proc[id].xvfb # "terminating")

\* C24 as stated: an encoder process exists only if the browser process exists,
\* and a browser or window manager process only if the display process exists
C24_ProcessesNested ==
    \A id \in JobIds :
        /\ proc[id].ffmpeg # "none" => proc[id].chrome # "none"
        /\ (proc[id].chrome # "none" \/ proc[id].wm # "none") => proc[id].xvfb # "none"

\* C24: what a job holds is nested: it holds an encoder only while it holds a
\* browser, a browser or window manager only while it holds the display; it
\* starts them in the order display, browser, encoder, and it signals the
\* display only after it has let go of encoder and browser
C24_HeldNested ==
    \A id \in JobIds :
        /\ task[id].ffmpegProcess = "live" => task[id].browser = "open"
        /\ (task[id].browser = "open" \/ wmProcess = id) => xvfbProcess = id
        /\ "ffmpeg" \in spawned[id] => "chrome" \in spawned[id]
        /\ ("chrome" \in spawned[id] \/ "wm" \in spawned[id]) => "xvfb" \in spawned[id]
        /\ proc[id].ffmpeg = "running" => proc[id].chrome = "running"
        /\ proc[id].xvfb = "terminating" =>
              (task[id].browser # "open" /\ task[id].ffmpegProcess # "live")

C24_Witness ==
    \E id \in Known :
        /\ activeRecordings[id].status = "completed"
        /\ spawned[id] = Kinds
        /\ proc[id].xvfb = "terminating"
        /\ proc[id].ffmpeg = "terminating"

\* the job has looked at its output file: it went on to the upload, or failed on
\* one of the two file checks
Examined(id) ==
    /\ id \in Known
    /\ \/ "uploading_to_minio" \in Range(seen[id])
       \/ activeRecordings[id].error \in EmptyOutputErrors

\* C25 as stated: while the job uploads the file its encoder process has exited
\* and its browser is closed
C25_EncoderExited ==
    \A id \in JobIds :
        task[id].pc = "upload" => (proc[id].ffmpeg = "none" /\ task[id].browser = "closed")

\* C25: the file is examined and uploaded only after the encoder was sent the
\* stop signal and the wait for it ended, and after the browser was closed; an
\* encoder that was signalled may still be exiting
C25_EncoderStopped ==
    \A id \in JobIds :
        Examined(id) =>
            /\ task[id].ffmpegProcess = "killed"
            /\ proc[id].ffmpeg \in {"none", "terminating"}
            /\ task[id].browser = "closed"
            /\ proc[id].chrome = "none"

C25_Witness ==
    \E id \in Known :
        /\ task[id].pc = "upload"
        /\ proc[id].ffmpeg = "terminating"
        /\ task[id].browser = "closed"

\* the step issues an advance key event of job id
Advances(id) ==
    /\ Len(events'[id]) > Len(events[id])
    /\ \E k \in (Len(events[id]) + 1)..Len(events'[id]) : events'[id][k][1] = "advance"

\* C26: every advance key event of a job is issued when its encoder has been
\* started and the stop signal has not been sent, before and after the step
C26_AdvanceWhileCapturing ==
    [][\A id \in JobIds :
          Advances(id) =>
              /\ "ffmpeg" \in spawned[id]
              /\ task[id].ffmpegProcess = "live" /\ task'[id].ffmpegProcess = "live"
              /\ proc[id].ffmpeg # "terminating" /\ proc'[id].ffmpeg # "terminating"]_vars

C26_Witness ==
    \E id \in Known :
        /\ \E k \in 1..Len(events[id]) : events[id][k][1] = "advance"
        /\ task[id].pc = "transitions"
        /\ proc[id].ffmpeg = "running"

NavOrder == <<"domcontentloaded", "networkidle2", "load">>
NavErrors == {GotoError(n) : n \in 1..3}

\* the strategies tried are the first ones of the fixed order, and every one of
\* them but the last has failed; while a goto is pending the last one is open;
\* a navigation error is recorded only when all three have failed
NavInOrder(id) ==
    /\ IsPrefix(task[id].navTried, NavOrder)
    /\ IsPrefix(task[id].navFailed, task[id].navTried)
    /\ Len(task[id].navTried) - Len(task[id].navFailed) <= 1
    /\ task[id].pc = "goto" => Len(task[id].navFailed) = Len(task[id].navTried) - 1
    /\ (id \in Known /\ activeRecordings[id].error \in NavErrors)
          => task[id].navFailed = NavOrder

\* C27: navigation tries content-parsed, network-settled, basic-load in this
\* order, a strategy only after every earlier one failed; no strategy is tried
\* once one has succeeded; the job fails on navigation only if all three failed
C27_StrategiesInOrder ==
    [][\A id \in JobIds :
          /\ NavInOrder(id)'
          /\ task'[id].navTried # task[id].navTried =>
                \/ task[id].pc = "page_setup" /\ task[id].navTried = <<>>
                \/ task[id].pc = "goto" /\ Len(task'[id].navFailed) = Len(task[id].navTried)
                \/ task'[id].navTried = <<>>]_vars

C27_Witness ==
    \E id \in Known :
        /\ task[id].pc = "page_settle"
        /\ task[id].navTried = <<"domcontentloaded", "networkidle2">>
        /\ task[id].navFailed = <<"domcontentloaded">>

\* the strategies whose failure message msg carries
Carries(msg) == {n \in 1..3 : msg = GotoError(n)}

\* C28: when all three strategies have failed and the job has failed on the
\* navigation, the recorded error carries the failure of each of the three
C28_ErrorAggregates ==
    \A id \in Known :
        (activeRecordings[id].status = "failed" /\ task[id].navFailed = NavOrder
            /\ activeRecordings[id].error \in NavErrors)
           => Carries(activeRecordings[id].error) = {1, 2, 3}

\* all three load strategies of the job have failed
NavExhausted(id) == task[id].navFailed = NavOrder

\* the wait for the encoder has ended although the signalled encoder has not exited
GraceExpired(id) ==
    /\ task[id].pc \in {"browser_close", "upload", "done"}
    /\ task[id].ffmpegProcess = "killed"
    /\ proc[id].ffmpeg = "terminating"

\* C29 as stated: after the navigation strategies are exhausted or the grace
\* period of the encoder has expired, the job does not go on to later stages
C29_ExpiryFails ==
    \A id \in Known :
        (NavExhausted(id) \/ GraceExpired(id))
           => activeRecordings[id].status \notin {"uploading_to_minio", "completed"}

\* C29: when all navigation strategies have failed the job is in the cleanup
\* path with the navigation error, or Failed, and has started neither encoder nor
\* upload; when the grace period of the encoder expires on a recording without
\* error, the job is not failed: it goes on to close the browser
C29_NavFailsGraceContinues ==
    [][\A id \in JobIds :
          /\ (id \in Known /\ NavExhausted(id))' =>
                /\ \/ task'[id].pc = "browser_close" /\ task'[id].pendingError = GotoError(3)
                   \/ task'[id].pc = "done" /\ activeRecordings'[id].status = "failed"
                /\ "ffmpeg" \notin spawned'[id]
                /\ "uploading_to_minio" \notin Range(seen'[id])
          /\ (/\ server' = "up"
              /\ task[id].pc = "stop_wait" /\ task'[id].pc # "stop_wait"
              /\ proc'[id].ffmpeg = proc[id].ffmpeg
              /\ task[id].pendingError = "none") =>
                /\ task'[id].pc = "browser_close"
                /\ task'[id].pendingError = "none"
                /\ activeRecordings'[id].status = "recording"]_vars

C29_Witness ==
    \E id \in Known :
        /\ GraceExpired(id)
        /\ activeRecordings[id].status = "uploading_to_minio"

\* C30: once the stop signal is sent and the job waits for the encoder, the wait
\* ends, by the close event or by the grace period, also when the encoder had
\* exited before the signal, and the job continues with the rest of the finally
\* block (or the server has stopped)
C30_StopReturns ==
    \A id \in JobIds :
        (server = "up" /\ task[id].pc = "stop_wait")
           ~> (server # "up" \/ task[id].pc \in {"browser_close", "upload", "done"})

C30_Witness ==
    \E id \in Known :
        /\ task[id].pc = "stop_wait"
        /\ task[id].ffmpegProcess = "killed"
        /\ proc[id].ffmpeg = "none"

\* the settle timer of startXvfb fires for job id while its start is pending
SettleFires(id) ==
    /\ server' = "up"
    /\ task[id].pc = "xvfb_pending"
    /\ id \in timers.settle /\ id \notin timers'.settle

\* C31: when the settle window elapses and the display process of the job is
\* not alive (it never started, or it exited on its own), display start fails:
\* the job is Failed at once, start is not resolved and no browser is launched
C31_DeadDisplayFailsStart ==
    [][\A id \in JobIds :
          (SettleFires(id) /\ proc[id].xvfb # "running") =>
              /\ id \in DOMAIN activeRecordings'
              /\ activeRecordings'[id].status = "failed"
              /\ id \notin timers'.resolve
              /\ task'[id].pc = "done"]_vars

\* the step starts a window manager for job id
WmStarts(id) ==
    \/ "wm" \in spawned'[id] /\ "wm" \notin spawned[id]
    \/ wmProcess' = id /\ wmProcess # id

\* the first of fluxbox, openbox among the candidates
FirstAvailable(candidates) ==
    IF "fluxbox" \in candidates THEN "fluxbox"
    ELSE IF "openbox" \in candidates THEN "openbox" ELSE "none"

\* the start of the display has failed: the job failed before status 'recording'
StartFailed(id) ==
    /\ id \in Known
    /\ activeRecordings[id].status = "failed"
    /\ "starting_virtual_display" \in Range(seen[id])
    /\ "recording" \notin Range(seen[id])

RECURSIVE ClampedSchedule(_, _)
ClampedSchedule(ts, n) ==
    IF n = 0 THEN <<>>
    ELSE LET d == ts[n] - (IF n = 1 THEN 0 ELSE ts[n - 1])
         IN  ClampedSchedule(ts, n - 1)
               \o <<<<"wait", IF d > 0 THEN d ELSE 0>>, <<"advance", n>>>>

\* the sum over k <= n of max(0, ts[k] - ts[k-1])
RECURSIVE TotalWait(_, _)
TotalWait(ts, n) ==
    IF n = 0 THEN 0
    ELSE LET d == ts[n] - (IF n = 1 THEN 0 ELSE ts[n - 1])
         IN  TotalWait(ts, n - 1) + (IF d > 0 THEN d ELSE 0)

\* C33: on any list of positive timings the slide loop fails only when a key
\* press fails; as long as it has not failed it has pressed the advance key once
\* per element done, in list order, each after a wait of max(0, timings[i] -
\* timings[i-1]), and its cursor is the last element done; when the loop has
\* ended the waits sum to the sum of these maxima
C33_ClampedSchedule ==
    LET ts == task[1].timings
    IN  /\ task[1].pendingError \in {"none", "key press failed"}
        /\ task[1].pc = "transitions" =>
              /\ events[1] = ClampedSchedule(ts, task[1].i - 1)
              /\ task[1].currentTime = (IF task[1].i = 1 THEN 0 ELSE ts[task[1].i - 1])
        /\ LoopDone(1) =>
              /\ task[1].pendingError = "none"
              /\ events[1] = ClampedSchedule(ts, Len(ts)) \o <<<<"hold", 5>>>>
              /\ SumWaits(events[1]) = TotalWait(ts, Len(ts))

\* the loop over [3, 1, 2] has ended: waits 3, 0 and 1
C33_Witness ==
    /\ LoopDone(1)
    /\ task[1].timings = <<3, 1, 2>>
    /\ SumWaits(events[1]) = 4

AllButTable ==
    <<nextId, xvfbProcess, wmProcess, task, proc, tempFile, unlinkFailed, timers, response,
      server, seen, events, heldAtTerminal, spawned, bucket>>

\* C34: a step of the encoder's progress callback leaves the set of entries as
\* it is (it creates none, and does nothing for a job without entry), changes
\* no field of any entry but the progress marker, changes an entry only if the
\* encoder of that very job is alive, and changes nothing outside the job table
C34_ProgressFrame ==
    [][/\ DOMAIN activeRecordings' = DOMAIN activeRecordings
       /\ \A j \in Known :
             /\ activeRecordings'[j] = [activeRecordings[j] EXCEPT !.ffmpegOutput = "marker"]
                  \/ activeRecordings'[j] = activeRecordings[j]
             /\ activeRecordings'[j] # activeRecordings[j] => proc[j].ffmpeg # "none"
       /\ UNCHANGED AllButTable]_vars

\* the callback of a job has marked its completed entry while the encoder of
\* another job, which has no entry, is alive
C34_Witness ==
    \E id \in Known, j \in JobIds \ Known :
        /\ activeRecordings[id].status = "completed"
        /\ activeRecordings[id].ffmpegOutput = "marker"
        /\ proc[j].ffmpeg = "running"

\* the step creates the entry of job id
Admitted(id) == id \notin Known /\ id \in DOMAIN activeRecordings'

\* C35: the step that creates a job's entry answers 200 with the job id and
\* status 'started', whatever the dependency check finds; the answer is sent when
\* the entry exists with status 'starting', before 'checking_dependencies' is
\* written; after the step nothing of the job has been started, and the job has
\* not reached 'recording'; a 200 answer is sent by no other step
C35_AnswerBeforeWork ==
    [][/\ \A id \in JobIds :
             Admitted(id) =>
                 /\ response' = [code |-> 200, id |-> id, status |-> "started",
                                 at |-> "starting"]
                 /\ spawned'[id] = {}
                 /\ \A k \in Kinds : proc'[id][k] = "none"
                 /\ task'[id].browser = "undefined" /\ task'[id].ffmpegProcess = "undefined"
                 /\ activeRecordings'[id].status \in {"starting_virtual_display", "failed"}
                 /\ "recording" \notin Range(seen'[id])
       /\ (SubmitStep /\ response'.code = 200) => Admitted(response'.id)]_vars

\* a job was answered 200 'started' although its dependency check failed
C35_Witness ==
    \E id \in Known :
        /\ response = [code |-> 200, id |-> id, status |-> "started", at |-> "starting"]
        /\ activeRecordings[id].status = "failed"
        /\ activeRecordings[id].error = "Missing dependencies"
        /\ seen[id] = <<"starting", "checking_dependencies", "failed">>

\* the required capabilities and the command names that resolve each
Required ==
    {[name |-> "xvfb", cmds |-> {"xvfb-run"}],
     [name |-> "google-chrome", cmds |-> {"google-chrome", "chromium-browser"}],
     [name |-> "ffmpeg", cmds |-> {"ffmpeg"}],
     [name |-> "nodejs", cmds |-> {"node"}]}

\* the capabilities none of whose command names is among the resolved ones
Unresolved(resolved) == {r.name : r \in {q \in Required : q.cmds \cap resolved = {}}}

\* C36: the result of checkDependencies is exactly the set of required
\* capabilities with no resolving command name, the browser being missing only
\* if neither google-chrome nor chromium-browser resolves; the call changes
\* nothing of the job table, the handles, the processes or the jobs
C36_ExactlyTheMissing ==
    [][/\ response'.code = 200 =>
             /\ response'.missing = Unresolved(response'.which)
             /\ "google-chrome" \in response'.missing
                  <=> {"google-chrome", "chromium-browser"} \cap response'.which = {}
             /\ response'.status = "healthy" <=> response'.missing = {}
       /\ UNCHANGED AllButResponse]_vars

\* the check has run where only the fallback browser name resolves: nothing is missing
C36_Witness ==
    /\ response.code = 200
    /\ response.which = Commands \ {"google-chrome"}
    /\ response.missing = {}

====
